---- MODULE Spec2Model ----
(***************************************************************************)
(* Model of the Monte Carlo own-vs-rent engine of src/montecarlo.py:       *)
(* the two scenario evaluators, the distribution sampler, the trial        *)
(* runner, the aggregator and the percentile function; of the single-path  *)
(* calculator of src/calculate.py; and of the web application of           *)
(* src/app.py.                                                             *)
(*                                                                         *)
(* Numbers.  The program computes in Python floats.  The model computes    *)
(* in exact rationals <<numerator, denominator>> (denominator > 0, lowest  *)
(* terms), so every result below is a result about the arithmetic the      *)
(* code writes down, free of binary rounding.                              *)
(***************************************************************************)
EXTENDS Integers, Sequences, FiniteSets, TLC

VARIABLES
    vals,         \* the Parameter Set: vals of the evaluators, sampled_vals of a trial
    own,          \* the locals of calculate_own_scenario
    rent,         \* the locals of calculate_rent_scenario
    dist_params,  \* the Distribution Specs given to run_monte_carlo
    num_sims,     \* the trial count given to run_monte_carlo
    seed,         \* the seed the random source is started from
    rng,          \* the state of the random source (module random)
    run,          \* which run of run_monte_carlo this is, 1 or 2
    mc,           \* the locals of run_monte_carlo and of its current trial
    trials,       \* history: the (own, rent) pairs in the order the trials produced them
    result,       \* what run_monte_carlo returned (or raised)
    first,        \* what the first run returned (or raised)
    sorted_list,  \* percentile's first argument
    p,            \* percentile's second argument
    pct,          \* percentile's call state and return value
    params,       \* the mapping given to simulate_own_vs_rent
    calc,         \* the locals of simulate_own_vs_rent
    session,      \* the Flask session of the client
    request,      \* the request the web application handled last
    response      \* the response it gave

evalvars == <<vals, own, rent>>

mcvars == <<dist_params, num_sims, seed, rng, run, mc, trials, result, first>>

pctvars == <<sorted_list, p, pct>>

calcvars == <<params, calc>>

webvars == <<session, request, response>>

vars == <<evalvars, mcvars, pctvars, calcvars, webvars>>

---------------------------------------------------------------------------
(* Rational arithmetic standing for Python's float operators.              *)

Abs(x) == IF x < 0 THEN -x ELSE x

RECURSIVE GCD(_, _)
GCD(a, b) == IF b = 0 THEN a ELSE GCD(b, a % b)

Rat(n, d) ==
    LET g == GCD(Abs(n), Abs(d))
        s == IF d < 0 THEN -1 ELSE 1
    IN  <<(s * n) \div g, Abs(d) \div g>>

I(n) == <<n, 1>>

Zero == I(0)

One == I(1)

RNeg(x) == <<-x[1], x[2]>>

RAdd(x, y) ==
    LET g == GCD(x[2], y[2])
        l == (x[2] \div g) * y[2]
    IN  Rat(x[1] * (l \div x[2]) + y[1] * (l \div y[2]), l)

RSub(x, y) == RAdd(x, RNeg(y))

RMul(x, y) ==
    LET g1 == GCD(Abs(x[1]), y[2])
        g2 == GCD(Abs(y[1]), x[2])
    IN  Rat((x[1] \div g1) * (y[1] \div g2), (x[2] \div g2) * (y[2] \div g1))

\* x / y for y # 0 (Python raises ZeroDivisionError for y = 0; the callers test it)
RDiv(x, y) == RMul(x, Rat(y[2], y[1]))

RLt(x, y) == RSub(x, y)[1] < 0

RLe(x, y) == RSub(x, y)[1] <= 0

RGt(x, y) == RLt(y, x)

RGe(x, y) == RLe(y, x)

\* x ** k for an int k (k < 0 gives the reciprocal power)
RECURSIVE RPow(_, _)
RPow(x, k) ==
    IF k = 0 THEN One
    ELSE IF k < 0 THEN RDiv(One, RPow(x, -k))
    ELSE LET h == RPow(x, k \div 2)
         IN  IF k % 2 = 0 THEN RMul(h, h) ELSE RMul(RMul(h, h), x)

\* int(x): truncation toward zero
Trunc(x) == IF x[1] >= 0 THEN x[1] \div x[2] ELSE -((-x[1]) \div x[2])

\* math.floor(x) and math.ceil(x)
Floor(x) == x[1] \div x[2]

Ceil(x) == -((-x[1]) \div x[2])

\* a percentage as a fraction: x / 100.0
Pct(x) == RDiv(x, I(100))

\* the monthly share of an annual amount: x / 12.0
PerMonth(x) == RDiv(x, I(12))

\* x *= (1 + rate)
Grow(x, rate) == RMul(x, RAdd(One, rate))

---------------------------------------------------------------------------
(* calculate_own_scenario, src/montecarlo.py 53-221.                       *)

\* Months with the horizon rounded up instead of truncated.
Months_rounded_up(v) == Ceil(RMul(RSub(v.end_age, v.start_age), I(12)))

\* months = int((vals['end_age'] - vals['start_age']) * 12)
Months(v) == Trunc(RMul(RSub(v.end_age, v.start_age), I(12)))

\* monthly_income = (annual_income * (1 - marginal_tax_rate)) / 12.0
MonthlyIncome(annual_income, v) ==
    PerMonth(RMul(annual_income, RSub(One, Pct(v.marginal_tax_rate))))

\* The locals of calculate_own_scenario before the function is entered.
OwnIdle ==
    [pc |-> "idle", exc |-> "none", result |-> Zero, months |-> 0, m |-> 0,
     annual_income |-> Zero, monthly_income |-> Zero, house_value |-> Zero,
     mortgage_principal |-> Zero, mortgage_term_months |-> 0,
     monthly_interest_rate |-> Zero, mortgage_payment |-> Zero,
     liquid_investments |-> Zero, mortgage_balance |-> Zero,
     net_worth |-> Zero, monthly_insurance |-> Zero,
     monthly_travel |-> Zero, monthly_groceries |-> Zero,
     monthly_bills |-> Zero, monthly_healthcare |-> Zero,
     actual_mortgage_payment |-> Zero, leftover |-> Zero]

\* The level payment of lines 110-118.  The quotient of line 115 is taken
\* only under the guard of line 111.
mortgage_payment_of(mortgage_principal, monthly_interest_rate, mortgage_term_months) ==
    IF RGt(mortgage_principal, Zero) /\ RGt(monthly_interest_rate, Zero)
    THEN LET f == RPow(RAdd(One, monthly_interest_rate), mortgage_term_months)
         IN  RDiv(RMul(mortgage_principal, RMul(monthly_interest_rate, f)),
                  RSub(f, One))
    ELSE Zero

\* Whether line 115 divides by zero: (1 + r) ** n - 1 = 0 under the guard.
mortgage_payment_raises(mortgage_principal, monthly_interest_rate, mortgage_term_months) ==
    /\ RGt(mortgage_principal, Zero)
    /\ RGt(monthly_interest_rate, Zero)
    /\ RSub(RPow(RAdd(One, monthly_interest_rate), mortgage_term_months), One) = Zero

\* own_start borrowing the whole home price: line 102 without the down
\* payment subtracted.
own_start_full_price(v) ==
    LET months == Months(v)
        principal0 == v.home_price
        mortgage_principal == IF RLt(principal0, Zero) THEN Zero ELSE principal0
        mortgage_term_months == Trunc(RMul(v.mortgage_term, I(12)))
        monthly_interest_rate == PerMonth(Pct(v.mortgage_rate))
        entered == [OwnIdle EXCEPT !.months = months,
                       !.annual_income = v.annual_income,
                       !.monthly_income = MonthlyIncome(v.annual_income, v)]
    IN  IF months < 1
        THEN [entered EXCEPT !.pc = "done", !.result = Zero]
        ELSE IF mortgage_payment_raises(mortgage_principal, monthly_interest_rate,
                                        mortgage_term_months)
        THEN [entered EXCEPT !.pc = "error", !.exc = "ZeroDivisionError",
                 !.house_value = v.home_price,
                 !.mortgage_principal = mortgage_principal,
                 !.mortgage_term_months = mortgage_term_months,
                 !.monthly_interest_rate = monthly_interest_rate]
        ELSE [entered EXCEPT !.pc = "loop",
                 !.house_value = v.home_price,
                 !.mortgage_principal = mortgage_principal,
                 !.mortgage_term_months = mortgage_term_months,
                 !.monthly_interest_rate = monthly_interest_rate,
                 !.mortgage_payment =
                     mortgage_payment_of(mortgage_principal, monthly_interest_rate,
                                         mortgage_term_months),
                 !.liquid_investments = Zero,
                 !.mortgage_balance = mortgage_principal,
                 !.net_worth = RNeg(v.down_payment),
                 !.monthly_insurance = PerMonth(v.homeowner_insurance),
                 !.monthly_travel = v.monthly_travel,
                 !.monthly_groceries = v.monthly_groceries,
                 !.monthly_bills = v.monthly_bills,
                 !.monthly_healthcare = v.monthly_healthcare]

\* Lines 85-140: everything before the monthly loop.
own_start(v) ==
    LET months == Months(v)
        principal0 == RSub(v.home_price, v.down_payment)
        mortgage_principal == IF RLt(principal0, Zero) THEN Zero ELSE principal0
        mortgage_term_months == Trunc(RMul(v.mortgage_term, I(12)))
        monthly_interest_rate == PerMonth(Pct(v.mortgage_rate))
        entered == [OwnIdle EXCEPT !.months = months,
                       !.annual_income = v.annual_income,
                       !.monthly_income = MonthlyIncome(v.annual_income, v)]
    IN  IF months < 1
        THEN [entered EXCEPT !.pc = "done", !.result = Zero]
        ELSE IF mortgage_payment_raises(mortgage_principal, monthly_interest_rate,
                                        mortgage_term_months)
        THEN [entered EXCEPT !.pc = "error", !.exc = "ZeroDivisionError",
                 !.house_value = v.home_price,
                 !.mortgage_principal = mortgage_principal,
                 !.mortgage_term_months = mortgage_term_months,
                 !.monthly_interest_rate = monthly_interest_rate]
        ELSE [entered EXCEPT !.pc = "loop",
                 !.house_value = v.home_price,
                 !.mortgage_principal = mortgage_principal,
                 !.mortgage_term_months = mortgage_term_months,
                 !.monthly_interest_rate = monthly_interest_rate,
                 !.mortgage_payment =
                     mortgage_payment_of(mortgage_principal, monthly_interest_rate,
                                         mortgage_term_months),
                 !.liquid_investments = Zero,
                 !.mortgage_balance = mortgage_principal,
                 !.net_worth = RNeg(v.down_payment),
                 !.monthly_insurance = PerMonth(v.homeowner_insurance),
                 !.monthly_travel = v.monthly_travel,
                 !.monthly_groceries = v.monthly_groceries,
                 !.monthly_bills = v.monthly_bills,
                 !.monthly_healthcare = v.monthly_healthcare]

\* own_annual taken at every m with m % 12 = 0, month 0 included.
own_annual_from_month_0(v, s) ==
    IF s.m % 12 = 0
    THEN LET inflation_rate == Pct(v.inflation_rate)
             annual_income == Grow(s.annual_income, inflation_rate)
         IN  [s EXCEPT !.annual_income = annual_income,
                 !.monthly_income = MonthlyIncome(annual_income, v),
                 !.house_value = Grow(s.house_value, Pct(v.home_appreciation)),
                 !.monthly_travel = Grow(s.monthly_travel, inflation_rate),
                 !.monthly_groceries = Grow(s.monthly_groceries, inflation_rate),
                 !.monthly_bills = Grow(s.monthly_bills, inflation_rate),
                 !.monthly_healthcare = Grow(s.monthly_healthcare, inflation_rate),
                 !.monthly_insurance = Grow(s.monthly_insurance, inflation_rate)]
    ELSE s

\* Lines 145-158: the annual step, taken at m > 0 with m % 12 = 0.
own_annual(v, s) ==
    IF s.m > 0 /\ s.m % 12 = 0
    THEN LET inflation_rate == Pct(v.inflation_rate)
             annual_income == Grow(s.annual_income, inflation_rate)
         IN  [s EXCEPT !.annual_income = annual_income,
                 !.monthly_income = MonthlyIncome(annual_income, v),
                 !.house_value = Grow(s.house_value, Pct(v.home_appreciation)),
                 !.monthly_travel = Grow(s.monthly_travel, inflation_rate),
                 !.monthly_groceries = Grow(s.monthly_groceries, inflation_rate),
                 !.monthly_bills = Grow(s.monthly_bills, inflation_rate),
                 !.monthly_healthcare = Grow(s.monthly_healthcare, inflation_rate),
                 !.monthly_insurance = Grow(s.monthly_insurance, inflation_rate)]
    ELSE s

\* own_mortgage without the cap of lines 166-168.
own_mortgage_uncapped(s) ==
    IF s.m < s.mortgage_term_months /\ RGt(s.mortgage_balance, Zero)
    THEN LET interest_portion == RMul(s.mortgage_balance, s.monthly_interest_rate)
             principal_portion == RSub(s.mortgage_payment, interest_portion)
         IN  [s EXCEPT !.mortgage_balance = RSub(s.mortgage_balance, principal_portion),
                 !.actual_mortgage_payment = RAdd(interest_portion, principal_portion)]
    ELSE [s EXCEPT !.actual_mortgage_payment = Zero]

\* Lines 160-171: this month's mortgage payment.
own_mortgage(s) ==
    IF s.m < s.mortgage_term_months /\ RGt(s.mortgage_balance, Zero)
    THEN LET interest_portion == RMul(s.mortgage_balance, s.monthly_interest_rate)
             portion0 == RSub(s.mortgage_payment, interest_portion)
             principal_portion ==
                 IF RGt(portion0, s.mortgage_balance) THEN s.mortgage_balance
                 ELSE portion0
         IN  [s EXCEPT !.mortgage_balance = RSub(s.mortgage_balance, principal_portion),
                 !.actual_mortgage_payment = RAdd(interest_portion, principal_portion)]
    ELSE [s EXCEPT !.actual_mortgage_payment = Zero]

\* own_invest without the test of line 198: a negative leftover is taken
\* out of liquid_investments.
own_invest_any_leftover(v, s) ==
    LET monthly_property_tax == PerMonth(RMul(s.house_value, Pct(v.property_tax_rate)))
        monthly_maintenance == PerMonth(RMul(s.house_value, Pct(v.maintenance_rate)))
        monthly_homeowner_costs ==
            RAdd(RAdd(RAdd(s.actual_mortgage_payment, monthly_property_tax),
                      s.monthly_insurance), monthly_maintenance)
        monthly_living_expenses ==
            RAdd(RAdd(RAdd(s.monthly_travel, s.monthly_groceries), s.monthly_bills),
                 s.monthly_healthcare)
        total_monthly_spending == RAdd(monthly_homeowner_costs, monthly_living_expenses)
        leftover == RSub(s.monthly_income, total_monthly_spending)
        invested == RAdd(s.liquid_investments, leftover)
        monthly_invest_return == PerMonth(Pct(v.investment_return))
    IN  [s EXCEPT !.leftover = leftover,
            !.liquid_investments = Grow(invested, monthly_invest_return)]

\* Lines 173-206: costs, leftover, investing and compounding.
own_invest(v, s) ==
    LET monthly_property_tax == PerMonth(RMul(s.house_value, Pct(v.property_tax_rate)))
        monthly_maintenance == PerMonth(RMul(s.house_value, Pct(v.maintenance_rate)))
        monthly_homeowner_costs ==
            RAdd(RAdd(RAdd(s.actual_mortgage_payment, monthly_property_tax),
                      s.monthly_insurance), monthly_maintenance)
        monthly_living_expenses ==
            RAdd(RAdd(RAdd(s.monthly_travel, s.monthly_groceries), s.monthly_bills),
                 s.monthly_healthcare)
        total_monthly_spending == RAdd(monthly_homeowner_costs, monthly_living_expenses)
        leftover == RSub(s.monthly_income, total_monthly_spending)
        invested == IF RGt(leftover, Zero) THEN RAdd(s.liquid_investments, leftover)
                    ELSE s.liquid_investments
        monthly_invest_return == PerMonth(Pct(v.investment_return))
    IN  [s EXCEPT !.leftover = leftover,
            !.liquid_investments = Grow(invested, monthly_invest_return)]

\* One iteration of the loop of lines 143-206, for m = s.m.
own_month(v, s) ==
    LET t == own_invest(v, own_mortgage(own_annual(v, s)))
    IN  [t EXCEPT !.m = s.m + 1]

\* Lines 215-221: the value returned after the loop.
own_return(s) ==
    [s EXCEPT !.pc = "done",
        !.result = RAdd(RAdd(s.net_worth, RSub(s.house_value, s.mortgage_balance)),
                        s.liquid_investments)]

RECURSIVE own_loop(_, _)
own_loop(v, s) ==
    IF s.pc = "loop" /\ s.m < s.months THEN own_loop(v, own_month(v, s))
    ELSE IF s.pc = "loop" THEN own_return(s)
    ELSE s

\* The whole call: its final locals, with pc "done" (result returned) or
\* "error" (exc raised).
calculate_own_scenario(v) == own_loop(v, own_start(v))

---------------------------------------------------------------------------
(* calculate_rent_scenario, src/montecarlo.py 224-290.                     *)

RentIdle ==
    [pc |-> "idle", exc |-> "none", result |-> Zero, months |-> 0, m |-> 0,
     annual_income |-> Zero, monthly_income |-> Zero, current_rent |-> Zero,
     liquid_investments |-> Zero,
     monthly_travel |-> Zero, monthly_groceries |-> Zero,
     monthly_bills |-> Zero, monthly_healthcare |-> Zero, leftover |-> Zero]

\* rent_start with the renter's balance starting at the down payment that
\* was not spent on a house.
rent_start_investing_down_payment(v) ==
    LET months == Months(v)
        entered == [RentIdle EXCEPT !.months = months,
                       !.annual_income = v.annual_income]
    IN  IF months < 1
        THEN [entered EXCEPT !.pc = "done", !.result = Zero]
        ELSE [entered EXCEPT !.pc = "loop",
                 !.monthly_income = MonthlyIncome(v.annual_income, v),
                 !.liquid_investments = v.down_payment,
                 !.monthly_travel = v.monthly_travel,
                 !.monthly_groceries = v.monthly_groceries,
                 !.monthly_bills = v.monthly_bills,
                 !.monthly_healthcare = v.monthly_healthcare,
                 !.current_rent = v.rent]

\* Lines 231-252: everything before the monthly loop.
rent_start(v) ==
    LET months == Months(v)
        entered == [RentIdle EXCEPT !.months = months,
                       !.annual_income = v.annual_income]
    IN  IF months < 1
        THEN [entered EXCEPT !.pc = "done", !.result = Zero]
        ELSE [entered EXCEPT !.pc = "loop",
                 !.monthly_income = MonthlyIncome(v.annual_income, v),
                 !.liquid_investments = Zero,
                 !.monthly_travel = v.monthly_travel,
                 !.monthly_groceries = v.monthly_groceries,
                 !.monthly_bills = v.monthly_bills,
                 !.monthly_healthcare = v.monthly_healthcare,
                 !.current_rent = v.rent]

\* Lines 256-268: the annual step.
rent_annual(v, s) ==
    IF s.m > 0 /\ s.m % 12 = 0
    THEN LET inflation_rate == Pct(v.inflation_rate)
             annual_income == Grow(s.annual_income, inflation_rate)
         IN  [s EXCEPT !.current_rent = Grow(s.current_rent, Pct(v.rent_escalation_rate)),
                 !.annual_income = annual_income,
                 !.monthly_income = MonthlyIncome(annual_income, v),
                 !.monthly_travel = Grow(s.monthly_travel, inflation_rate),
                 !.monthly_groceries = Grow(s.monthly_groceries, inflation_rate),
                 !.monthly_bills = Grow(s.monthly_bills, inflation_rate),
                 !.monthly_healthcare = Grow(s.monthly_healthcare, inflation_rate)]
    ELSE s

\* rent_invest with a shortfall carried as debt: the leftover is added to
\* the balance whatever its sign.
rent_invest_carrying_debt(v, s) ==
    LET monthly_living_expenses ==
            RAdd(RAdd(RAdd(RAdd(s.current_rent, s.monthly_travel), s.monthly_groceries),
                      s.monthly_bills), s.monthly_healthcare)
        leftover == RSub(s.monthly_income, monthly_living_expenses)
        invested == RAdd(s.liquid_investments, leftover)
        monthly_invest_return == PerMonth(Pct(v.investment_return))
    IN  [s EXCEPT !.leftover = leftover,
            !.liquid_investments = Grow(invested, monthly_invest_return)]

\* Lines 270-285: expenses, leftover, investing and compounding.
rent_invest(v, s) ==
    LET monthly_living_expenses ==
            RAdd(RAdd(RAdd(RAdd(s.current_rent, s.monthly_travel), s.monthly_groceries),
                      s.monthly_bills), s.monthly_healthcare)
        leftover == RSub(s.monthly_income, monthly_living_expenses)
        invested == IF RGt(leftover, Zero) THEN RAdd(s.liquid_investments, leftover)
                    ELSE s.liquid_investments
        monthly_invest_return == PerMonth(Pct(v.investment_return))
    IN  [s EXCEPT !.leftover = leftover,
            !.liquid_investments = Grow(invested, monthly_invest_return)]

\* One iteration of the loop of lines 254-285, for m = s.m.
rent_month(v, s) ==
    LET t == rent_invest(v, rent_annual(v, s))
    IN  [t EXCEPT !.m = s.m + 1]

\* Lines 289-290.
rent_return(s) == [s EXCEPT !.pc = "done", !.result = s.liquid_investments]

RECURSIVE rent_loop(_, _)
rent_loop(v, s) ==
    IF s.pc = "loop" /\ s.m < s.months THEN rent_loop(v, rent_month(v, s))
    ELSE IF s.pc = "loop" THEN rent_return(s)
    ELSE s

calculate_rent_scenario(v) == rent_loop(v, rent_start(v))

---------------------------------------------------------------------------
(* The random source (module random, imported at line 22) and              *)
(* sample_distribution, src/montecarlo.py 27-50.                           *)
(*                                                                         *)
(* The generator is a deterministic function of its state: random.seed     *)
(* sets the state, every draw reads it and advances it.  The model keeps   *)
(* a state of 0..7 and three representative outcomes per draw.             *)

\* random.seed(a)
random_seed(a) == a % 8

\* the state after one draw
random_advance(rs) == (5 * rs + 3) % 8

\* the standard normal deviate drawn in state rs: -1, 0 or 1
random_deviate(rs) == I((rs % 3) - 1)

\* math.exp, as the polynomial 1 + x + x^2/2 (positive everywhere, 1 at 0)
Exp(x) == RAdd(RAdd(One, x), RDiv(RMul(x, x), I(2)))

\* random.gauss(mu, sigma) = mu + z * sigma
random_gauss(rs, mu, sigma) == RAdd(mu, RMul(random_deviate(rs), sigma))

\* random.lognormvariate(mu, sigma) = exp(normalvariate(mu, sigma))
random_lognormvariate(rs, mu, sigma) == Exp(random_gauss(rs, mu, sigma))

\* random.triangular(low, high, mode) for low <= mode <= high: the draws
\* u = 0, u = (mode - low) / (high - low) and u -> 1 give low, mode and high;
\* high = low gives low.
random_triangular(rs, low, high, mode) ==
    IF high = low THEN low
    ELSE CASE rs % 3 = 0 -> low
           [] rs % 3 = 1 -> mode
           [] OTHER -> high

\* sample_distribution with the normal branch drawing from a source that
\* random.seed does not reset (it has moved on by the second run).
sample_distribution_unseeded(rs, dist_type, mean, stdev, minimum, maximum, mode) ==
    CASE dist_type = "normal" ->
           [val |-> random_gauss(rs + run - 1, mean, stdev), rng |-> random_advance(rs)]
      [] dist_type = "lognormal" ->
           [val |-> random_lognormvariate(rs, mean, stdev), rng |-> random_advance(rs)]
      [] dist_type = "triangular" ->
           [val |-> random_triangular(rs, minimum, maximum, mode),
            rng |-> random_advance(rs)]
      [] OTHER -> [val |-> mean, rng |-> rs]

\* sample_distribution treating an unrecognized kind as 'normal': it draws
\* from the random source instead of returning mean.
sample_distribution_unknown_as_normal(rs, dist_type, mean, stdev, minimum, maximum, mode) ==
    CASE dist_type = "lognormal" ->
           [val |-> random_lognormvariate(rs, mean, stdev), rng |-> random_advance(rs)]
      [] dist_type = "triangular" ->
           [val |-> random_triangular(rs, minimum, maximum, mode),
            rng |-> random_advance(rs)]
      [] OTHER -> [val |-> random_gauss(rs, mean, stdev), rng |-> random_advance(rs)]

\* Lines 38-50.  rs is the state of the random source at the call; the
\* value returned and the state left behind.
sample_distribution(rs, dist_type, mean, stdev, minimum, maximum, mode) ==
    CASE dist_type = "normal" ->
           [val |-> random_gauss(rs, mean, stdev), rng |-> random_advance(rs)]
      [] dist_type = "lognormal" ->
           [val |-> random_lognormvariate(rs, mean, stdev), rng |-> random_advance(rs)]
      [] dist_type = "triangular" ->
           [val |-> random_triangular(rs, minimum, maximum, mode),
            rng |-> random_advance(rs)]
      [] OTHER -> [val |-> mean, rng |-> rs]

---------------------------------------------------------------------------
(* run_single_simulation, src/montecarlo.py 293-351.                       *)

\* variable_keys holding only the 18 names that the own path reads: without
\* rent and rent_escalation_rate.
variable_keys_own_path ==
    << <<"annual_income", "annual_income_dist">>,
       <<"home_price", "home_price_dist">>,
       <<"down_payment", "down_payment_dist">>,
       <<"mortgage_rate", "mortgage_rate_dist">>,
       <<"mortgage_term", "mortgage_term_dist">>,
       <<"property_tax_rate", "property_tax_rate_dist">>,
       <<"homeowner_insurance", "homeowner_insurance_dist">>,
       <<"maintenance_rate", "maintenance_rate_dist">>,
       <<"home_appreciation", "home_appreciation_dist">>,
       <<"investment_return", "investment_return_dist">>,
       <<"marginal_tax_rate", "marginal_tax_rate_dist">>,
       <<"inflation_rate", "inflation_rate_dist">>,
       <<"start_age", "start_age_dist">>,
       <<"end_age", "end_age_dist">>,
       <<"monthly_travel", "monthly_travel_dist">>,
       <<"monthly_groceries", "monthly_groceries_dist">>,
       <<"monthly_bills", "monthly_bills_dist">>,
       <<"monthly_healthcare", "monthly_healthcare_dist">> >>

\* Lines 307-328.
variable_keys ==
    << <<"annual_income", "annual_income_dist">>,
       <<"home_price", "home_price_dist">>,
       <<"down_payment", "down_payment_dist">>,
       <<"mortgage_rate", "mortgage_rate_dist">>,
       <<"mortgage_term", "mortgage_term_dist">>,
       <<"property_tax_rate", "property_tax_rate_dist">>,
       <<"homeowner_insurance", "homeowner_insurance_dist">>,
       <<"maintenance_rate", "maintenance_rate_dist">>,
       <<"rent", "rent_dist">>,
       <<"rent_escalation_rate", "rent_escalation_rate_dist">>,
       <<"home_appreciation", "home_appreciation_dist">>,
       <<"investment_return", "investment_return_dist">>,
       <<"marginal_tax_rate", "marginal_tax_rate_dist">>,
       <<"inflation_rate", "inflation_rate_dist">>,
       <<"start_age", "start_age_dist">>,
       <<"end_age", "end_age_dist">>,
       <<"monthly_travel", "monthly_travel_dist">>,
       <<"monthly_groceries", "monthly_groceries_dist">>,
       <<"monthly_bills", "monthly_bills_dist">>,
       <<"monthly_healthcare", "monthly_healthcare_dist">> >>

\* d.get(key, default)
Get(d, key, default) == IF key \in DOMAIN d THEN d[key] ELSE default

\* sample_key looking the parameter's own name up in dist_params (which
\* holds only "<name>_dist" keys), so that every parameter falls back to 0.0.
sample_key_by_name(rs, dp, dist_key) ==
    LET name == variable_keys[CHOOSE i \in DOMAIN variable_keys :
                                 variable_keys[i][2] = dist_key][1]
    IN  IF name \in DOMAIN dp
        THEN LET d == dp[name]
             IN  sample_distribution(rs, Get(d, "dist_type", "normal"),
                                     Get(d, "mean", Zero), Get(d, "stdev", Zero),
                                     Get(d, "min", Zero), Get(d, "max", Zero),
                                     Get(d, "mode", Zero))
        ELSE [val |-> Zero, rng |-> rs]

\* sample_key resolving a parameter without a spec as if an empty spec had
\* been given: sample_distribution is called with the defaults of lines
\* 336-341, which yields 0.0 but draws from the random source.
sample_key_default_spec(rs, dp, dist_key) ==
    LET d == IF dist_key \in DOMAIN dp THEN dp[dist_key] ELSE << >>
    IN  sample_distribution(rs, Get(d, "dist_type", "normal"),
                            Get(d, "mean", Zero), Get(d, "stdev", Zero),
                            Get(d, "min", Zero), Get(d, "max", Zero),
                            Get(d, "mode", Zero))

\* Lines 333-346, one iteration of the loop: the value for dist_key and the
\* state of the random source after it.
sample_key(rs, dp, dist_key) ==
    IF dist_key \in DOMAIN dp
    THEN LET d == dp[dist_key]
         IN  sample_distribution(rs, Get(d, "dist_type", "normal"),
                                 Get(d, "mean", Zero), Get(d, "stdev", Zero),
                                 Get(d, "min", Zero), Get(d, "max", Zero),
                                 Get(d, "mode", Zero))
    ELSE [val |-> Zero, rng |-> rs]

---------------------------------------------------------------------------
(* percentile and run_monte_carlo, src/montecarlo.py 354-421.              *)

\* Python's None
None == << >>

\* percentile returning the element at the floor rank, without interpolation.
percentile_floor(list, q) ==
    IF list = << >> THEN None
    ELSE list[Floor(RMul(I(Len(list) - 1), RDiv(I(q), I(100)))) + 1]

\* percentile with the rank counted from the end of the list.
percentile_from_end(list, q) ==
    IF list = << >> THEN None
    ELSE LET index == RMul(I(Len(list) - 1), RSub(One, RDiv(I(q), I(100))))
             lower == Floor(index)
             upper == Ceil(index)
         IN  IF lower = upper THEN list[lower + 1]
             ELSE LET fraction == RSub(index, I(lower))
                  IN  RAdd(list[lower + 1],
                           RMul(RSub(list[upper + 1], list[lower + 1]), fraction))

\* Lines 358-366.  list is 1-indexed here, so rank r is list[r + 1].
percentile(list, q) ==
    IF list = << >> THEN None
    ELSE LET index == RMul(I(Len(list) - 1), RDiv(I(q), I(100)))
             lower == Floor(index)
             upper == Ceil(index)
         IN  IF lower = upper THEN list[lower + 1]
             ELSE LET fraction == RSub(index, I(lower))
                  IN  RAdd(list[lower + 1],
                           RMul(RSub(list[upper + 1], list[lower + 1]), fraction))

RECURSIVE Dedup(_)
Dedup(list) ==
    IF Len(list) <= 1 THEN list
    ELSE IF list[1] = list[2] THEN Dedup(Tail(list))
    ELSE <<Head(list)>> \o Dedup(Tail(list))

\* sorted(set(list)): a sort that drops equal values.
sort_unique(list) == Dedup(SortSeq(list, RLt))

\* list.sort() of lines 397-398: the list in ascending order.
sort(list) == SortSeq(list, RLt)

RECURSIVE Sum(_)
Sum(list) == IF list = << >> THEN Zero ELSE RAdd(Head(list), Sum(Tail(list)))

\* statistics.mean
mean(list) == RDiv(Sum(list), I(Len(list)))

\* statistics.median: the middle of the sorted data, or the mean of the two
\* middle values
median(list) ==
    LET data == sort(list)
        n == Len(data)
    IN  IF n % 2 = 1 THEN data[(n \div 2) + 1]
        ELSE RDiv(RAdd(data[n \div 2], data[(n \div 2) + 1]), I(2))

\* What run_monte_carlo has returned before it was called, and the shape of
\* what it returns: the dictionary of lines 410-421, and the exception, if
\* one ended the call.
NoResult ==
    [exc |-> "none", own_results |-> << >>, rent_results |-> << >>,
     mean_own |-> Zero, mean_rent |-> Zero, median_own |-> Zero,
     median_rent |-> Zero, pct_10_own |-> None, pct_90_own |-> None,
     pct_10_rent |-> None, pct_90_rent |-> None]

\* Lines 400-421.
results_of(own_values, rent_values) ==
    [exc |-> "none",
     own_results |-> own_values,
     rent_results |-> rent_values,
     mean_own |-> IF own_values # << >> THEN mean(own_values) ELSE Zero,
     mean_rent |-> IF rent_values # << >> THEN mean(rent_values) ELSE Zero,
     median_own |-> IF own_values # << >> THEN median(own_values) ELSE Zero,
     median_rent |-> IF rent_values # << >> THEN median(rent_values) ELSE Zero,
     pct_10_own |-> percentile(own_values, 10),
     pct_90_own |-> percentile(own_values, 90),
     pct_10_rent |-> percentile(rent_values, 10),
     pct_90_rent |-> percentile(rent_values, 90)]

\* The locals of run_monte_carlo (own_values, rent_values, the trial count
\* so far) and of the trial under way (k: the variable_keys entry the
\* sampling loop is at; rng0, history: the state the random source was in
\* when the trial began).
MCIdle ==
    [pc |-> "idle", i |-> 0, k |-> 0, rng0 |-> 0,
     own_values |-> << >>, rent_values |-> << >>]

PctIdle == [pc |-> "idle", val |-> None]

---------------------------------------------------------------------------
(* simulate_own_vs_rent, src/calculate.py.                                 *)
(*                                                                         *)
(* A Python value is a record here: k is its kind ("num": a float, "nan":  *)
(* the float NaN, "complex": a complex number, "str": a text that is not   *)
(* a number, "raise": an expression that raised), x the float of a "num".  *)

Num(x) == [k |-> "num", x |-> x]

NaN == [k |-> "nan", x |-> Zero]

Complex == [k |-> "complex", x |-> Zero]

Text == [k |-> "str", x |-> Zero]

Raised == [k |-> "raise", x |-> Zero]

\* The kind of a op b for an arithmetic operator: a text operand raises
\* TypeError, a complex operand gives a complex number, a NaN operand gives
\* NaN.
BinKind(a, b) ==
    IF {a.k, b.k} \cap {"raise", "str"} # {} THEN "raise"
    ELSE IF "complex" \in {a.k, b.k} THEN "complex"
    ELSE IF "nan" \in {a.k, b.k} THEN "nan"
    ELSE "num"

FAdd(a, b) ==
    IF BinKind(a, b) = "num" THEN Num(RAdd(a.x, b.x)) ELSE [k |-> BinKind(a, b), x |-> Zero]

FSub(a, b) ==
    IF BinKind(a, b) = "num" THEN Num(RSub(a.x, b.x)) ELSE [k |-> BinKind(a, b), x |-> Zero]

FMul(a, b) ==
    IF BinKind(a, b) = "num" THEN Num(RMul(a.x, b.x)) ELSE [k |-> BinKind(a, b), x |-> Zero]

\* a / b: a float divisor of 0 raises ZeroDivisionError
FDiv(a, b) ==
    IF b.k = "num" /\ b.x = Zero THEN Raised
    ELSE IF BinKind(a, b) = "num" THEN Num(RDiv(a.x, b.x))
    ELSE [k |-> BinKind(a, b), x |-> Zero]

\* a > b and a >= b on floats: False when either is NaN
FGt(a, b) == a.k = "num" /\ b.k = "num" /\ RGt(a.x, b.x)

FGe(a, b) == a.k = "num" /\ b.k = "num" /\ RGe(a.x, b.x)

\* an ordering comparison of a raises TypeError when a is complex
CompareRaises(a) == a.k \in {"complex", "raise"}

\* x ** (1/12) for the floats x >= 0 whose twelfth root is a rational: 0, 1
\* and 4096.
Root12(x) == CHOOSE r \in {Zero, One, I(2)} : RPow(r, 12) = x

\* Lines 122-125: (1 + rate) ** (1/12) - 1.  A negative float to the power
\* 1/12 is a complex number in Python 3.
MonthlyRate(rate) ==
    LET b == FAdd(Num(One), rate)
    IN  IF b.k # "num" THEN b
        ELSE IF RLt(b.x, Zero) THEN Complex
        ELSE Num(RSub(Root12(b.x), One))

\* validate_param, lines 3-17: the float, or the ValueError raised.  The bare
\* except of line 10 turns every failure of float() into the ValueError of
\* line 11; NaN passes both comparisons of line 13.
validate_param(value, min_val, max_val, param_name) ==
    IF value.k = "str"
    THEN [exc |-> "ValueError", msg |-> "must be a numeric value", val |-> Raised]
    ELSE IF value.k = "num" /\ (RLt(value.x, min_val) \/ RGt(value.x, max_val))
    THEN [exc |-> "ValueError", msg |-> "is out of the allowed range", val |-> Raised]
    ELSE [exc |-> "none", msg |-> "", val |-> value]

\* The validate_param calls of lines 85-119 in order: the key, the fallback
\* default and the range.
CalcFields ==
    << [name |-> "start_age", default |-> I(30), min |-> I(17), max |-> I(90)],
       [name |-> "end_age", default |-> I(65), min |-> I(30), max |-> I(120)],
       [name |-> "annual_income", default |-> I(60000), min |-> I(10000),
        max |-> I(20000000)],
       [name |-> "home_price", default |-> I(300000), min |-> I(100000),
        max |-> I(20000000)],
       [name |-> "down_payment", default |-> I(60000), min |-> Zero, max |-> I(500000)],
       [name |-> "mortgage_rate", default |-> Rat(4, 100), min |-> Zero,
        max |-> Rat(10, 100)],
       [name |-> "mortgage_term", default |-> I(30), min |-> I(10), max |-> I(70)],
       [name |-> "property_tax_rate", default |-> Rat(12, 1000), min |-> Zero,
        max |-> Rat(15, 100)],
       [name |-> "homeowner_insurance", default |-> I(1200), min |-> I(500),
        max |-> I(20000)],
       [name |-> "maintenance_rate", default |-> Rat(1, 100), min |-> Zero,
        max |-> Rat(20, 100)],
       [name |-> "rent", default |-> I(1500), min |-> I(500), max |-> I(5000)],
       [name |-> "rent_escalation_rate", default |-> Rat(3, 100), min |-> Zero,
        max |-> Rat(10, 100)],
       [name |-> "renters_insurance_annual", default |-> I(240), min |-> Zero,
        max |-> I(5000)],
       [name |-> "home_appreciation", default |-> Rat(3, 100), min |-> Zero,
        max |-> Rat(10, 100)],
       [name |-> "investment_return", default |-> Rat(5, 100), min |-> Zero,
        max |-> Rat(25, 100)],
       [name |-> "marginal_tax_rate", default |-> Rat(25, 100), min |-> Zero,
        max |-> One],
       [name |-> "inflation_rate", default |-> Rat(2, 100), min |-> Zero,
        max |-> Rat(50, 100)],
       [name |-> "monthly_travel", default |-> I(300), min |-> Zero, max |-> I(10000)],
       [name |-> "monthly_groceries", default |-> I(400), min |-> Zero,
        max |-> I(10000)],
       [name |-> "monthly_bills", default |-> I(250), min |-> Zero, max |-> I(100000)],
       [name |-> "monthly_healthcare", default |-> I(200), min |-> Zero,
        max |-> I(10000)] >>

\* Line 95: the default of annual_salary_growth.
annual_salary_growth_default == Rat(2, 100)

\* calculate_mortgage_payment, lines 20-40 (the power of line 39 for a whole
\* number of payments n).
calculate_mortgage_payment(principal, annual_interest_rate, term_years) ==
    LET monthly_rate == FDiv(annual_interest_rate, Num(I(12)))
        n == FMul(term_years, Num(I(12)))
        power == IF monthly_rate.k = "num" /\ n.k = "num"
                 THEN Num(RPow(RAdd(One, monthly_rate.x), -Trunc(n.x)))
                 ELSE FMul(monthly_rate, n)
    IN  IF monthly_rate.k = "num" /\ monthly_rate.x = Zero THEN FDiv(principal, n)
        ELSE FDiv(FMul(principal, monthly_rate), FSub(Num(One), power))

\* The locals of simulate_own_vs_rent before its first statement; k is the
\* validate_param call it is at, f the floats validated so far.
CalcIdle ==
    [pc |-> "idle", exc |-> "none", msg |-> "", k |-> 1, f |-> << >>,
     total_months |-> 0, month |-> 0, annual_salary_growth |-> Num(Zero),
     monthly_salary_growth |-> Num(Zero), monthly_investment_return |-> Num(Zero),
     monthly_home_appreciation |-> Num(Zero), monthly_rent_escalation |-> Num(Zero),
     salary |-> Num(Zero), current_home_value |-> Num(Zero),
     mortgage_balance |-> Num(Zero), mortgage_payment |-> Num(Zero),
     mortgage_term_months |-> 0, homeowner_investment |-> Num(Zero),
     renter_investment |-> Num(Zero), homeowner_debt |-> Num(Zero),
     renter_debt |-> Num(Zero), lifetime_income |-> Num(Zero),
     current_rent |-> Num(Zero), results |-> << >>]

\* One validate_param call of lines 85-119 and the assignment of its result.
\* After end_age comes the test of lines 89-92, after the last field the
\* set-up of lines 121-140.
calc_validate(prm, c) ==
    LET F == CalcFields[c.k]
        r == validate_param(Get(prm, F.name, Num(F.default)), F.min, F.max, F.name)
    IN  IF r.exc # "none"
        THEN [c EXCEPT !.pc = "error", !.exc = r.exc, !.msg = r.msg]
        ELSE [c EXCEPT !.k = c.k + 1,
                 !.f = [key \in DOMAIN c.f \cup {F.name} |->
                           IF key = F.name THEN r.val ELSE c.f[key]],
                 !.pc = IF F.name = "end_age" THEN "horizon"
                        ELSE IF c.k = Len(CalcFields) THEN "setup"
                        ELSE "validate"]

\* Lines 89-92.  int() of a NaN raises ValueError.
calc_horizon(c) ==
    IF FGe(c.f.start_age, c.f.end_age)
    THEN [c EXCEPT !.pc = "error", !.exc = "ValueError",
             !.msg = "The end_age must be greater than start_age."]
    ELSE LET years == FSub(c.f.end_age, c.f.start_age)
         IN  IF years.k # "num"
             THEN [c EXCEPT !.pc = "error", !.exc = "ValueError",
                      !.msg = "cannot convert float NaN to integer"]
             ELSE [c EXCEPT !.pc = "validate",
                      !.total_months = Trunc(RMul(years.x, I(12)))]

\* Lines 95 and 121-140: annual_salary_growth is read from params as it is,
\* the annual rates are converted, the running amounts are initialized.
calc_setup(prm, c) ==
    LET f == c.f
        annual_salary_growth ==
            Get(prm, "annual_salary_growth", Num(annual_salary_growth_default))
        monthly_salary_growth == MonthlyRate(annual_salary_growth)
        mortgage_balance == FSub(f.home_price, f.down_payment)
        term_months == FMul(f.mortgage_term, Num(I(12)))
    IN  IF monthly_salary_growth.k = "raise"
        THEN [c EXCEPT !.pc = "error", !.exc = "TypeError",
                 !.msg = "unsupported operand type(s) for +: 'int' and 'str'",
                 !.annual_salary_growth = annual_salary_growth]
        ELSE IF term_months.k # "num"
        THEN [c EXCEPT !.pc = "error", !.exc = "ValueError",
                 !.msg = "cannot convert float NaN to integer",
                 !.annual_salary_growth = annual_salary_growth]
        ELSE [c EXCEPT !.pc = "loop",
                 !.annual_salary_growth = annual_salary_growth,
                 !.monthly_salary_growth = monthly_salary_growth,
                 !.monthly_investment_return = MonthlyRate(f.investment_return),
                 !.monthly_home_appreciation = MonthlyRate(f.home_appreciation),
                 !.monthly_rent_escalation = MonthlyRate(f.rent_escalation_rate),
                 !.salary = f.annual_income,
                 !.current_home_value = f.home_price,
                 !.mortgage_balance = mortgage_balance,
                 !.mortgage_payment =
                     calculate_mortgage_payment(mortgage_balance, f.mortgage_rate,
                                                f.mortgage_term),
                 !.mortgage_term_months = Trunc(term_months.x),
                 !.renter_investment = f.down_payment,
                 !.current_rent = f.rent]

\* One iteration of the loop of lines 143-208, for month = c.month + 1.  The
\* comparisons of lines 189 and 196 raise TypeError on a complex surplus.
calc_month(c) ==
    LET f == c.f
        month == c.month + 1
        monthly_income == FDiv(c.salary, Num(I(12)))
        monthly_expenses ==
            FAdd(FAdd(FAdd(f.monthly_travel, f.monthly_groceries), f.monthly_bills),
                 f.monthly_healthcare)
        monthly_income_after_expenses == FSub(monthly_income, monthly_expenses)
        active == month <= c.mortgage_term_months
        monthly_interest ==
            IF active THEN FMul(c.mortgage_balance, FDiv(f.mortgage_rate, Num(I(12))))
            ELSE Num(Zero)
        payment0 == FSub(c.mortgage_payment, monthly_interest)
        capped == active /\ FGt(payment0, c.mortgage_balance)
        principal_payment == IF capped THEN c.mortgage_balance ELSE payment0
        mortgage_payment ==
            IF ~active THEN Num(Zero)
            ELSE IF capped THEN FAdd(monthly_interest, principal_payment)
            ELSE c.mortgage_payment
        monthly_property_tax ==
            FDiv(FMul(c.current_home_value, f.property_tax_rate), Num(I(12)))
        monthly_insurance == FDiv(f.homeowner_insurance, Num(I(12)))
        monthly_maintenance ==
            FDiv(FMul(c.current_home_value, f.maintenance_rate), Num(I(12)))
        tax_benefit ==
            IF active
            THEN FMul(FAdd(monthly_interest, monthly_property_tax), f.marginal_tax_rate)
            ELSE Num(Zero)
        homeowner_cost ==
            FSub(FAdd(FAdd(FAdd(mortgage_payment, monthly_property_tax),
                           monthly_insurance), monthly_maintenance), tax_benefit)
        renting_cost == FAdd(c.current_rent, FDiv(f.renters_insurance_annual, Num(I(12))))
        homeowner_surplus == FSub(monthly_income_after_expenses, homeowner_cost)
        renter_surplus == FSub(monthly_income_after_expenses, renting_cost)
        growth == FAdd(Num(One), c.monthly_investment_return)
    IN  IF CompareRaises(homeowner_surplus) \/ CompareRaises(renter_surplus)
        THEN [c EXCEPT !.pc = "error", !.exc = "TypeError", !.month = month,
                 !.msg = "'>=' not supported between instances of 'complex' and 'int'"]
        ELSE [c EXCEPT !.month = month,
                 !.lifetime_income = FAdd(c.lifetime_income, monthly_income),
                 !.mortgage_payment = mortgage_payment,
                 !.mortgage_balance =
                     IF active THEN FSub(c.mortgage_balance, principal_payment)
                     ELSE c.mortgage_balance,
                 !.homeowner_investment =
                     IF FGe(homeowner_surplus, Num(Zero))
                     THEN FAdd(FMul(c.homeowner_investment, growth), homeowner_surplus)
                     ELSE c.homeowner_investment,
                 !.homeowner_debt =
                     IF FGe(homeowner_surplus, Num(Zero)) THEN c.homeowner_debt
                     ELSE FSub(FMul(c.homeowner_debt, growth), homeowner_surplus),
                 !.renter_investment =
                     IF FGe(renter_surplus, Num(Zero))
                     THEN FAdd(FMul(c.renter_investment, growth), renter_surplus)
                     ELSE c.renter_investment,
                 !.renter_debt =
                     IF FGe(renter_surplus, Num(Zero)) THEN c.renter_debt
                     ELSE FSub(FMul(c.renter_debt, growth), renter_surplus),
                 !.current_home_value =
                     FMul(c.current_home_value, FAdd(Num(One), c.monthly_home_appreciation)),
                 !.salary = FMul(c.salary, FAdd(Num(One), c.monthly_salary_growth)),
                 !.current_rent =
                     FMul(c.current_rent, FAdd(Num(One), c.monthly_rent_escalation))]

\* Lines 210-226.
calc_return(c) ==
    [c EXCEPT !.pc = "done",
        !.results =
            [lifetime_income |-> c.lifetime_income,
             renter_final_investment |-> c.renter_investment,
             homeowner_final_investment |-> c.homeowner_investment,
             final_house_value |-> c.current_home_value,
             homeowner_net_worth |->
                 FSub(FSub(FAdd(c.current_home_value, c.homeowner_investment),
                           c.mortgage_balance), c.homeowner_debt),
             renter_net_worth |-> FSub(c.renter_investment, c.renter_debt),
             mortgage_balance |-> c.mortgage_balance]]

---------------------------------------------------------------------------
(* The web application, src/app.py.                                        *)
(*                                                                         *)
(* A form value or a stored password is a record: k = "str" with the text  *)
(* s, or k = "none" for Python's None.  A JSON value of a request body is  *)
(* a record of the kinds above: "num" (a number, or a text float() reads), *)
(* "str" (a text float() rejects), "null".                                 *)

PyNone == [k |-> "none", s |-> ""]

Str(s) == [k |-> "str", s |-> s]

JNull == [k |-> "null", x |-> Zero]

\* Lines 7-9.
USERS == [testuser |-> "testpass"]

\* USERS.get(username)
users_get(username) ==
    IF username.k = "str" /\ username.s \in DOMAIN USERS THEN Str(USERS[username.s])
    ELSE PyNone

\* request.form.get(name)
form_get(form, name) == IF name \in DOMAIN form THEN Str(form[name]) ELSE PyNone

\* session.get('logged_in')
logged_in(sess) == "logged_in" \in DOMAIN sess /\ sess["logged_in"]

\* The responses: redirect(url_for(...)), render_template(...), jsonify(...),
\* and what Flask answers by itself (an error page with its status).
redirect(target) == [status |-> 302, kind |-> "redirect", target |-> target, data |-> << >>]

render_template(template, error) ==
    [status |-> 200, kind |-> "page", target |-> template, data |-> <<error>>]

jsonify(results) == [status |-> 200, kind |-> "json", target |-> "", data |-> results]

flask_error(status, what) ==
    [status |-> status, kind |-> "error", target |-> what, data |-> << >>]

\* A request body: k = "absent" (no JSON body, or not declared as JSON),
\* "malformed" (declared as JSON, not parseable), "null", "list" or "object"
\* (the parsed JSON value; data holds the members of an object).
Body(k, data) == [k |-> k, data |-> data]

NoRequest == [method |-> "", path |-> "", form |-> << >>, body |-> Body("absent", << >>)]

NoResponse == [status |-> 0, kind |-> "", target |-> "", data |-> << >>]

\* login, lines 11-24: the session and the response it leaves.
login(req, sess) ==
    IF req.method = "POST"
    THEN LET username == form_get(req.form, "username")
             password == form_get(req.form, "password")
         IN  IF users_get(username) = password
             THEN [session |-> [key \in DOMAIN sess \cup {"logged_in"} |->
                                   IF key = "logged_in" THEN TRUE ELSE sess[key]],
                   response |-> redirect("/calculator")]
             ELSE [session |-> sess,
                   response |-> render_template("login.html",
                                                "Invalid username/password.")]
    ELSE IF logged_in(sess)
    THEN [session |-> sess, response |-> redirect("/calculator")]
    ELSE [session |-> sess, response |-> render_template("login.html", "")]

\* logout, lines 26-29.
logout(req, sess) == [session |-> << >>, response |-> redirect("/")]

\* calculator, lines 31-35.
calculator(req, sess) ==
    IF ~logged_in(sess) THEN [session |-> sess, response |-> redirect("/")]
    ELSE [session |-> sess, response |-> render_template("calculator.html", "")]

\* The inputs of compute in the order of lines 48-55, with their defaults.
ComputeFields ==
    << [name |-> "current_age", default |-> I(30)],
       [name |-> "age_at_death", default |-> I(90)],
       [name |-> "monthly_salary", default |-> I(5000)],
       [name |-> "monthly_rent", default |-> I(1500)],
       [name |-> "home_cost", default |-> I(400000)],
       [name |-> "down_payment", default |-> I(80000)],
       [name |-> "monthly_expenses", default |-> I(1500)],
       [name |-> "investment_return", default |-> I(6)] >>

\* float(data.get(name, default)): the exception it raises, or "none"
float_raises(data, F) ==
    LET v == Get(data, F.name, Num(F.default))
    IN  CASE v.k = "str" -> "ValueError"
          [] v.k = "null" -> "TypeError"
          [] OTHER -> "none"

\* The first of the conversions of lines 48-55 that raises, or 0.
FirstRaising(data) ==
    IF \E j \in DOMAIN ComputeFields : float_raises(data, ComputeFields[j]) # "none"
    THEN CHOOSE j \in DOMAIN ComputeFields :
            /\ float_raises(data, ComputeFields[j]) # "none"
            /\ \A i \in 1..(j - 1) : float_raises(data, ComputeFields[i]) = "none"
    ELSE 0

\* Lines 92-95 and 109-114.
mortgage_rate_annual == Rat(4, 100)

mortgage_term_years == 30

property_tax_annual_rate == Rat(1, 100)

insurance_annual_rate == Rat(3, 1000)

maintenance_annual_rate == Rat(2, 1000)

annual_appreciation_rate == Rat(2, 100)

\* Lines 75-80: the renter's balance after n more months.
RECURSIVE renter_months(_, _, _, _)
renter_months(balance, n, leftover_rent, monthly_investment_rate) ==
    IF n <= 0 THEN balance
    ELSE LET invested == IF RGt(leftover_rent, Zero) THEN RAdd(balance, leftover_rent)
                         ELSE balance
             grown == Grow(invested, monthly_investment_rate)
         IN  IF grown[2] > 0
             THEN renter_months(grown, n - 1, leftover_rent, monthly_investment_rate)
             ELSE balance

\* Lines 121-141: the buyer's house value and balance from month_index on.
RECURSIVE buyer_months(_, _, _, _)
buyer_months(st, month_index, months, c) ==
    IF month_index >= months THEN st
    ELSE LET house_value == Grow(st.house_value, PerMonth(annual_appreciation_rate))
             monthly_taxes == PerMonth(RMul(house_value, property_tax_annual_rate))
             monthly_insurance == PerMonth(RMul(house_value, insurance_annual_rate))
             monthly_maintenance == PerMonth(RMul(house_value, maintenance_annual_rate))
             upkeep == RAdd(RAdd(monthly_taxes, monthly_insurance), monthly_maintenance)
             monthly_costs ==
                 IF month_index < c.num_payments
                 THEN RAdd(c.monthly_mortgage_payment, upkeep)
                 ELSE upkeep
             leftover_buy ==
                 RSub(c.monthly_salary, RAdd(c.monthly_expenses, monthly_costs))
             invested ==
                 IF RGt(leftover_buy, Zero)
                 THEN RAdd(st.buyer_investment_balance, leftover_buy)
                 ELSE st.buyer_investment_balance
             next == [house_value |-> house_value,
                      buyer_investment_balance |->
                          Grow(invested, c.monthly_investment_rate)]
         IN  IF next.house_value[2] > 0
             THEN buyer_months(next, month_index + 1, months, c)
             ELSE st

\* f"${x:,.2f}": the amount in whole cents, rounded half to even.
format_money(x) ==
    LET scaled == RMul(x, I(100))
        low == Floor(scaled)
        twice == 2 * (scaled[1] % scaled[2])
    IN  IF twice < scaled[2] THEN low
        ELSE IF twice > scaled[2] THEN low + 1
        ELSE IF low % 2 = 0 THEN low ELSE low + 1

\* Lines 48-155 for a body whose fields all convert: the results dictionary.
compute_results(data) ==
    LET value(j) == Get(data, ComputeFields[j].name, Num(ComputeFields[j].default)).x
        current_age == value(1)
        age_at_death == value(2)
        monthly_salary == value(3)
        monthly_rent == value(4)
        home_cost == value(5)
        down_payment == value(6)
        monthly_expenses == value(7)
        investment_return == Pct(value(8))
        months == Trunc(RMul(RSub(age_at_death, current_age), I(12)))
        monthly_investment_rate == PerMonth(investment_return)
        renter_investment_balance ==
            renter_months(down_payment, months,
                          RSub(monthly_salary, RAdd(monthly_rent, monthly_expenses)),
                          monthly_investment_rate)
        principal == RSub(home_cost, down_payment)
        monthly_mortgage_rate == PerMonth(mortgage_rate_annual)
        num_payments == mortgage_term_years * 12
        monthly_mortgage_payment ==
            IF RGt(principal, Zero)
            THEN LET f == RPow(RAdd(One, monthly_mortgage_rate), num_payments)
                 IN  RDiv(RMul(principal, RMul(monthly_mortgage_rate, f)), RSub(f, One))
            ELSE Zero
        buyer == buyer_months([house_value |-> home_cost,
                               buyer_investment_balance |-> Zero], 0, months,
                              [num_payments |-> num_payments,
                               monthly_mortgage_payment |-> monthly_mortgage_payment,
                               monthly_salary |-> monthly_salary,
                               monthly_expenses |-> monthly_expenses,
                               monthly_investment_rate |-> monthly_investment_rate])
        homeowner_net_worth == RAdd(buyer.buyer_investment_balance, buyer.house_value)
    IN  [renter_investment_balance |-> format_money(renter_investment_balance),
         homeowner_investment_balance |-> format_money(buyer.buyer_investment_balance),
         final_house_value |-> format_money(buyer.house_value),
         homeowner_net_worth |-> format_money(homeowner_net_worth),
         renter_net_worth |-> format_money(renter_investment_balance),
         difference |-> RSub(homeowner_net_worth, renter_investment_balance)]

\* compute, lines 37-157.  request.json answers a body that is not JSON
\* with an error response of its own, or with None in a Flask that is older
\* (json_is_none); an exception that leaves the view is answered by Flask
\* with 500 Internal Server Error.
compute(req, sess, json_is_none) ==
    LET body == req.body
        j == FirstRaising(body.data)
    IN  [session |-> sess,
         response |->
            CASE body.k = "malformed" -> flask_error(400, "Bad Request")
              [] body.k = "absent" /\ ~json_is_none ->
                   flask_error(415, "Unsupported Media Type")
              [] body.k \in {"absent", "null", "list"} ->
                   flask_error(500, "AttributeError")
              [] body.k = "object" /\ j # 0 ->
                   flask_error(500, float_raises(body.data, ComputeFields[j]))
              [] OTHER -> jsonify(compute_results(body.data))]

---------------------------------------------------------------------------
(* The Parameter Sets the evaluators are run on.                           *)

\* The longest simulated horizon, in months.
MaxMonths == 14

\* A Parameter Set (the dictionary of lines 57-80) with every entry 0.
ZeroVals ==
    [annual_income |-> Zero, home_price |-> Zero, down_payment |-> Zero,
     mortgage_rate |-> Zero, mortgage_term |-> Zero, property_tax_rate |-> Zero,
     homeowner_insurance |-> Zero, maintenance_rate |-> Zero, rent |-> Zero,
     rent_escalation_rate |-> Zero, home_appreciation |-> Zero,
     investment_return |-> Zero, marginal_tax_rate |-> Zero,
     inflation_rate |-> Zero, start_age |-> Zero, end_age |-> Zero,
     monthly_travel |-> Zero, monthly_groceries |-> Zero,
     monthly_bills |-> Zero, monthly_healthcare |-> Zero]

\* end_age - start_age, in years: negative, zero, under a month either side
\* of zero, three months, and two horizons that pass the annual step.
Horizons ==
    {I(-1), Rat(-1, 24), Zero, Rat(1, 24), Rat(3, 12), Rat(13, 12), Rat(MaxMonths, 12)}

\* A Parameter Set that varies the mortgage: home price, down payment,
\* mortgage rate and term, growth (g = 1: income 120 a year, inflation and
\* appreciation of 100%) and horizon.
MortgageCase(hp, dp, mr, mt, g, h) ==
    [ZeroVals EXCEPT !.home_price = I(hp), !.down_payment = I(dp),
        !.mortgage_rate = I(mr), !.mortgage_term = mt,
        !.annual_income = I(g * 120), !.inflation_rate = I(g * 100),
        !.home_appreciation = I(g * 100),
        !.start_age = I(30), !.end_age = RAdd(I(30), h)]

\* Mortgage shapes: principal 4095, 0 and negative before the clamp; monthly
\* rate -2, -1/2, 0 and 1; terms of -12, 0, 3 (from 3.5) and 12 payments.
MortgageVals ==
    { MortgageCase(hp, dp, mr, mt, g, h) :
        hp \in {0, 4095}, dp \in {0, 4095}, mr \in {-2400, -600, 0, 1200},
        mt \in {I(-1), Zero, Rat(7, 24), One}, g \in {0, 1}, h \in Horizons }

\* A Parameter Set that varies the household: down payment, income,
\* investment return, taxes and growth (g), rent and living costs (c) and
\* horizon, on a house of 4095 with a 3-payment mortgage at 100% a month.
HouseholdCase(dp, inc, ir, g, c, h) ==
    [ZeroVals EXCEPT !.home_price = I(4095), !.down_payment = I(dp),
        !.mortgage_rate = I(1200), !.mortgage_term = Rat(7, 24),
        !.annual_income = I(inc), !.investment_return = I(ir),
        !.marginal_tax_rate = I(g * 50), !.inflation_rate = I(g * 100),
        !.rent_escalation_rate = I(g * 100), !.home_appreciation = I(g * 100),
        !.property_tax_rate = I(g * 1200),
        !.rent = I(c * 1200), !.homeowner_insurance = I(c * 1200),
        !.monthly_travel = I(c * 100), !.monthly_groceries = I(c * 200),
        !.monthly_bills = I(c * 300), !.monthly_healthcare = I(c * 400),
        !.start_age = I(30), !.end_age = RAdd(I(30), h)]

\* Household shapes: income, investment return (monthly factor 1, 2, 0, -1),
\* taxes and growth, rent and living costs, with and without a mortgage.
HouseholdVals ==
    { HouseholdCase(dp, inc, ir, g, c, h) :
        dp \in {0, 4095}, inc \in {0, 120000}, ir \in {0, 1200, -1200, -2400},
        g \in {0, 1}, c \in {0, 1}, h \in Horizons }

\* Horizons of 12, 24 and 25 months: none, one and two annual steps.
LongHorizons == {One, I(2), Rat(25, 12)}

\* Growth shapes: Parameter Sets whose income, expenses, rent and house
\* value double at every annual step, over the long horizons, with an
\* investment return of 0.
GrowthVals ==
    { MortgageCase(4095, dp, mr, mt, 1, h) :
        dp \in {0, 4095}, mr \in {0, 1200}, mt \in {Rat(7, 24), One},
        h \in LongHorizons }
    \cup
    { HouseholdCase(dp, inc, 0, 1, c, h) :
        dp \in {0, 4095}, inc \in {0, 120000}, c \in {0, 1}, h \in LongHorizons }

\* Squeeze shapes: a household with no mortgage whose leftover is positive
\* in the first year (700 a month owning, 800 renting) and negative after
\* the annual step, which doubles the house value (and the property tax
\* with it) and the rent but neither income nor living costs; the monthly
\* growth factor is 1, 2, 1/2, 0 or -1.
SqueezeCase(ir, h) ==
    [ZeroVals EXCEPT !.home_price = I(1200), !.down_payment = I(1200),
        !.annual_income = I(36000), !.investment_return = I(ir),
        !.rent_escalation_rate = I(100), !.home_appreciation = I(100),
        !.property_tax_rate = I(1200),
        !.rent = I(1200), !.homeowner_insurance = I(1200),
        !.monthly_travel = I(100), !.monthly_groceries = I(200),
        !.monthly_bills = I(300), !.monthly_healthcare = I(400),
        !.start_age = I(30), !.end_age = RAdd(I(30), h)]

SqueezeVals ==
    { SqueezeCase(ir, h) :
        ir \in {0, 1200, -600, -1200, -2400},
        h \in {Rat(13, 12), Rat(MaxMonths, 12)} }

ParamSets == MortgageVals \cup HouseholdVals \cup GrowthVals \cup SqueezeVals

---------------------------------------------------------------------------
(* Spec: one direct call of each evaluator on one Parameter Set, the own   *)
(* path first and the rent path after it (the order of lines 348-349).     *)
(* Each action is one step of the function: its prologue, one iteration    *)
(* of its monthly loop, or its return.                                     *)

\* The aggregator is not called.
MCUnused ==
    /\ dist_params = << >> /\ num_sims = 0 /\ seed = 0 /\ rng = 0 /\ run = 1
    /\ mc = MCIdle /\ trials = << >> /\ result = NoResult /\ first = NoResult

\* percentile is not called.
PctUnused == sorted_list = << >> /\ p = 0 /\ pct = PctIdle

\* simulate_own_vs_rent is not called.
CalcUnused == params = << >> /\ calc = CalcIdle

\* The web application serves no request.
WebUnused == session = << >> /\ request = NoRequest /\ response = NoResponse

Init ==
    /\ vals \in ParamSets
    /\ own = OwnIdle
    /\ rent = RentIdle
    /\ MCUnused
    /\ PctUnused
    /\ CalcUnused
    /\ WebUnused

OwnStart ==
    /\ own.pc = "idle"
    /\ own' = own_start(vals)
    /\ UNCHANGED <<vals, rent, mcvars, pctvars, calcvars, webvars>>

OwnMonth ==
    /\ own.pc = "loop"
    /\ own.m < own.months
    /\ own' = own_month(vals, own)
    /\ UNCHANGED <<vals, rent, mcvars, pctvars, calcvars, webvars>>

OwnReturn ==
    /\ own.pc = "loop"
    /\ own.m = own.months
    /\ own' = own_return(own)
    /\ UNCHANGED <<vals, rent, mcvars, pctvars, calcvars, webvars>>

RentStart ==
    /\ own.pc \in {"done", "error"}
    /\ rent.pc = "idle"
    /\ rent' = rent_start(vals)
    /\ UNCHANGED <<vals, own, mcvars, pctvars, calcvars, webvars>>

RentMonth ==
    /\ rent.pc = "loop"
    /\ rent.m < rent.months
    /\ rent' = rent_month(vals, rent)
    /\ UNCHANGED <<vals, own, mcvars, pctvars, calcvars, webvars>>

RentReturn ==
    /\ rent.pc = "loop"
    /\ rent.m = rent.months
    /\ rent' = rent_return(rent)
    /\ UNCHANGED <<vals, own, mcvars, pctvars, calcvars, webvars>>

Next ==
    \/ OwnStart
    \/ OwnMonth
    \/ OwnReturn
    \/ RentStart
    \/ RentMonth
    \/ RentReturn

Spec == Init /\ [][Next]_vars

---------------------------------------------------------------------------
(* SpecMC: run_monte_carlo called twice in a row, each time right after    *)
(* random.seed(seed), with the same Distribution Specs and trial count.    *)

\* The largest trial count.
MaxTrials == 3

DistKeys == {variable_keys[i][2] : i \in DOMAIN variable_keys}

BaseKeyOf(dist_key) ==
    variable_keys[CHOOSE i \in DOMAIN variable_keys : variable_keys[i][2] = dist_key][1]

\* A point distribution at x: a normal with stdev 0, written out in full or
\* left to the defaults of lines 336-338.
PointSpec(x, bare) ==
    IF bare THEN [mean |-> x]
    ELSE [dist_type |-> "normal", mean |-> x, stdev |-> Zero]

\* Every parameter of v as a point distribution.
PointParams(v, bare) == [dk \in DistKeys |-> PointSpec(v[BaseKeyOf(dk)], bare)]

\* dp with the specs of over put in and the keys of absent left out.
Override(dp, over, absent) ==
    [dk \in (DOMAIN dp \cup DOMAIN over) \ absent |->
        IF dk \in DOMAIN over THEN over[dk] ELSE dp[dk]]

\* Income normal, rent triangular, travel lognormal, appreciation of an
\* unrecognized kind, two parameters without a spec.
SpreadParams ==
    Override(PointParams(HouseholdCase(0, 120000, 1200, 1, 1, Rat(13, 12)), FALSE),
             [annual_income_dist |->
                 [dist_type |-> "normal", mean |-> I(120000), stdev |-> I(12000)],
              rent_dist |->
                 [dist_type |-> "triangular", min |-> I(600), max |-> I(2400),
                  mode |-> I(1200)],
              monthly_travel_dist |->
                 [dist_type |-> "lognormal", mean |-> Zero, stdev |-> One],
              home_appreciation_dist |-> [dist_type |-> "uniform", mean |-> I(100)]],
             {"maintenance_rate_dist", "property_tax_rate_dist"})

\* The horizon (0, 6 or 12 months) and the mortgage term (0, 3 or 6
\* payments) normal: some trials return at once, some raise.
TermParams ==
    Override(PointParams(MortgageCase(4095, 0, 1200, Rat(1, 4), 1, Rat(1, 2)), TRUE),
             [end_age_dist |->
                 [dist_type |-> "normal", mean |-> Rat(61, 2), stdev |-> Rat(1, 2)],
              mortgage_term_dist |-> [mean |-> Rat(1, 4), stdev |-> Rat(1, 4)]],
             {})

\* Kinds that sample_distribution does not recognize ('Normal', 'uniform',
\* '') on specs whose stdev, min, max and mode are not 0, then a normal
\* horizon (3 or 4 months); one parameter without a spec.
FallbackParams ==
    Override(PointParams(HouseholdCase(0, 120000, 0, 0, 1, Rat(1, 3)), FALSE),
             [annual_income_dist |->
                 [dist_type |-> "Normal", mean |-> I(120000), stdev |-> I(12000)],
              rent_dist |->
                 [dist_type |-> "uniform", mean |-> I(1200), min |-> I(600),
                  max |-> I(2400), mode |-> I(900)],
              marginal_tax_rate_dist |->
                 [dist_type |-> "", mean |-> I(50), stdev |-> I(10)],
              end_age_dist |->
                 [dist_type |-> "normal", mean |-> Rat(91, 3), stdev |-> Rat(1, 24)]],
             {"maintenance_rate_dist"})

DistParamSets ==
    { PointParams(HouseholdCase(0, 120000, 1200, 1, 1, Rat(13, 12)), FALSE),
      PointParams(HouseholdCase(4095, 120000, 0, 0, 1, Rat(3, 12)), TRUE),
      PointParams(MortgageCase(4095, 0, 1200, Zero, 1, Rat(3, 12)), FALSE),
      PointParams(MortgageCase(4095, 0, -600, One, 0, Zero), TRUE),
      SpreadParams,
      TermParams,
      FallbackParams }

Seeds == 0..3

EvalUnused == vals = << >> /\ own = OwnIdle /\ rent = RentIdle

InitMC ==
    /\ dist_params \in DistParamSets
    /\ num_sims \in -1..MaxTrials
    /\ seed \in Seeds
    /\ rng = random_seed(seed)
    /\ run = 1
    /\ mc = MCIdle
    /\ trials = << >>
    /\ result = NoResult
    /\ first = NoResult
    /\ EvalUnused
    /\ PctUnused
    /\ CalcUnused
    /\ WebUnused

\* Lines 389-390.
MCStart ==
    /\ mc.pc = "idle"
    /\ mc' = [MCIdle EXCEPT !.pc = "loop"]
    /\ UNCHANGED <<vals, own, rent, dist_params, num_sims, seed, rng, run, trials,
                   result, first, pctvars, calcvars, webvars>>

\* Lines 392-393 and 303-328: the next trial starts with an empty sampled_vals.
TrialStart ==
    /\ mc.pc = "loop"
    /\ mc.i < num_sims
    /\ mc' = [mc EXCEPT !.pc = "sample", !.k = 1, !.rng0 = rng]
    /\ vals' = << >>
    /\ own' = OwnIdle
    /\ rent' = RentIdle
    /\ UNCHANGED <<dist_params, num_sims, seed, rng, run, trials, result, first, pctvars, calcvars, webvars>>

\* SampleParam writing the drawn value back into the spec as its mean
\* (d['mean'] = val), so that the next trial samples around this one's value.
SampleParam_writing_back ==
    /\ mc.pc = "sample"
    /\ mc.k <= Len(variable_keys)
    /\ LET base_key == variable_keys[mc.k][1]
           dist_key == variable_keys[mc.k][2]
           drawn == sample_key(rng, dist_params, dist_key)
       IN  /\ vals' = [key \in DOMAIN vals \cup {base_key} |->
                          IF key = base_key THEN drawn.val ELSE vals[key]]
           /\ rng' = drawn.rng
           /\ dist_params' =
                 IF dist_key \in DOMAIN dist_params
                 THEN [dist_params EXCEPT ![dist_key] =
                          [f \in DOMAIN @ \cup {"mean"} |->
                              IF f = "mean" THEN drawn.val ELSE @[f]]]
                 ELSE dist_params
    /\ mc' = [mc EXCEPT !.k = mc.k + 1]
    /\ UNCHANGED <<own, rent, num_sims, seed, run, trials, result, first, pctvars, calcvars, webvars>>

\* Lines 332-346: one iteration of the sampling loop.
SampleParam ==
    /\ mc.pc = "sample"
    /\ mc.k <= Len(variable_keys)
    /\ LET base_key == variable_keys[mc.k][1]
           dist_key == variable_keys[mc.k][2]
           drawn == sample_key(rng, dist_params, dist_key)
       IN  /\ vals' = [key \in DOMAIN vals \cup {base_key} |->
                          IF key = base_key THEN drawn.val ELSE vals[key]]
           /\ rng' = drawn.rng
    /\ mc' = [mc EXCEPT !.k = mc.k + 1]
    /\ UNCHANGED <<own, rent, dist_params, num_sims, seed, run, trials, result, first,
                   pctvars, calcvars, webvars>>

\* Line 348.  An exception leaves run_single_simulation and run_monte_carlo.
EvaluateOwn ==
    /\ mc.pc = "sample"
    /\ mc.k > Len(variable_keys)
    /\ own' = calculate_own_scenario(vals)
    /\ IF own'.pc = "error"
       THEN /\ mc' = [mc EXCEPT !.pc = "error"]
            /\ result' = [NoResult EXCEPT !.exc = own'.exc]
       ELSE /\ mc' = [mc EXCEPT !.pc = "rent"]
            /\ UNCHANGED result
    /\ UNCHANGED <<vals, rent, dist_params, num_sims, seed, rng, run, trials, first,
                   pctvars, calcvars, webvars>>

\* EvaluateRent with the rent path called on a Parameter Set of its own, the
\* income of which is resolved anew from its spec.
EvaluateRent_resampled ==
    /\ mc.pc = "rent"
    /\ rent' = calculate_rent_scenario(
                   [key \in DOMAIN vals |->
                       IF key = "annual_income"
                       THEN sample_key(rng, dist_params, "annual_income_dist").val
                       ELSE vals[key]])
    /\ mc' = [mc EXCEPT !.pc = "loop", !.i = mc.i + 1, !.k = 0,
                 !.own_values = Append(mc.own_values, own.result),
                 !.rent_values = Append(mc.rent_values, rent'.result)]
    /\ trials' = Append(trials, <<own.result, rent'.result>>)
    /\ UNCHANGED <<vals, own, dist_params, num_sims, seed, rng, run, result, first,
                   pctvars, calcvars, webvars>>

\* Lines 349-351 and 393-395: the rent path, and the pair appended.
EvaluateRent ==
    /\ mc.pc = "rent"
    /\ rent' = calculate_rent_scenario(vals)
    /\ mc' = [mc EXCEPT !.pc = "loop", !.i = mc.i + 1, !.k = 0,
                 !.own_values = Append(mc.own_values, own.result),
                 !.rent_values = Append(mc.rent_values, rent'.result)]
    /\ trials' = Append(trials, <<own.result, rent'.result>>)
    /\ UNCHANGED <<vals, own, dist_params, num_sims, seed, rng, run, result, first,
                   pctvars, calcvars, webvars>>

\* Lines 397-398, once the loop of line 392 has run num_sims times.
MCSort ==
    /\ mc.pc = "loop"
    /\ mc.i >= num_sims
    /\ mc' = [mc EXCEPT !.pc = "sorted",
                 !.own_values = sort(mc.own_values),
                 !.rent_values = sort(mc.rent_values)]
    /\ UNCHANGED <<vals, own, rent, dist_params, num_sims, seed, rng, run, trials,
                   result, first, pctvars, calcvars, webvars>>

\* Lines 400-421.
MCReturn ==
    /\ mc.pc = "sorted"
    /\ result' = results_of(mc.own_values, mc.rent_values)
    /\ mc' = [mc EXCEPT !.pc = "done"]
    /\ UNCHANGED <<vals, own, rent, dist_params, num_sims, seed, rng, run, trials,
                   first, pctvars, calcvars, webvars>>

\* The caller keeps the first run's outcome, seeds the random source again
\* and calls run_monte_carlo a second time with the same arguments.
Rerun ==
    /\ run = 1
    /\ mc.pc \in {"done", "error"}
    /\ first' = result
    /\ run' = 2
    /\ rng' = random_seed(seed)
    /\ mc' = MCIdle
    /\ result' = NoResult
    /\ trials' = << >>
    /\ vals' = << >>
    /\ own' = OwnIdle
    /\ rent' = RentIdle
    /\ UNCHANGED <<dist_params, num_sims, seed, pctvars, calcvars, webvars>>

NextMC ==
    \/ MCStart
    \/ TrialStart
    \/ SampleParam
    \/ EvaluateOwn
    \/ EvaluateRent
    \/ MCSort
    \/ MCReturn
    \/ Rerun

SpecMC == InitMC /\ [][NextMC]_vars

---------------------------------------------------------------------------
(* SpecPct: one call of percentile on an ascending list.                   *)

\* The longest list given to percentile.
MaxLen == 4

PctValues == {Rat(-5, 2), I(10), I(20), I(30), I(40)}

Ascending(list) == \A i \in 1..(Len(list) - 1) : RLe(list[i], list[i + 1])

PctLists ==
    UNION { {list \in [1..n -> PctValues] : Ascending(list)} : n \in 0..MaxLen }

PctRanks == {0, 10, 25, 50, 90, 100}

InitPct ==
    /\ sorted_list \in PctLists
    /\ p \in PctRanks
    /\ pct = PctIdle
    /\ EvalUnused
    /\ MCUnused
    /\ CalcUnused
    /\ WebUnused

\* Lines 354-366.
Percentile ==
    /\ pct.pc = "idle"
    /\ pct' = [pc |-> "done", val |-> percentile(sorted_list, p)]
    /\ UNCHANGED <<sorted_list, p, evalvars, mcvars, calcvars, webvars>>

NextPct == Percentile

SpecPct == InitPct /\ [][NextPct]_vars

---------------------------------------------------------------------------
(* SpecCalc: one call of simulate_own_vs_rent of src/calculate.py on one   *)
(* params dictionary.  Each action is one validate_param call, the test of *)
(* the horizon, the set-up, one iteration of the monthly loop, or the      *)
(* return.                                                                 *)

\* The dictionary d with d[name] = value.
With(d, name, value) ==
    [key \in DOMAIN d \cup {name} |-> IF key = name THEN value ELSE d[key]]

\* A dictionary every field of which is accepted: a horizon of three months
\* and annual rates of 0 (the twelfth root of 1 + rate is then exact); the
\* fields it leaves out take the defaults of lines 85-119.
CalcBase ==
    [start_age |-> Num(Rat(359, 4)), end_age |-> Num(I(90)),
     annual_salary_growth |-> Num(Zero), mortgage_rate |-> Num(Zero),
     rent_escalation_rate |-> Num(Zero), home_appreciation |-> Num(Zero),
     investment_return |-> Num(Zero)]

\* The fields whose accepted values other than 0 leave every amount exact.
AmountFields ==
    {"annual_income", "home_price", "down_payment", "mortgage_term",
     "property_tax_rate", "homeowner_insurance", "maintenance_rate", "rent",
     "renters_insurance_annual", "marginal_tax_rate", "inflation_rate",
     "monthly_travel", "monthly_groceries", "monthly_bills", "monthly_healthcare"}

\* Values of one validated field: below and above its range, NaN, a text
\* that is no number, and for an amount both ends of its range.
FieldValues(F) ==
    {Num(RSub(F.min, One)), Num(RAdd(F.max, One)), NaN, Text}
        \cup (IF F.name \in AmountFields THEN {Num(F.min), Num(F.max)} ELSE {})

\* Values of annual_salary_growth: 1 + growth is 4096, 0, negative, NaN, a text.
SalaryGrowthValues == {Num(I(4095)), Num(I(-1)), Num(I(-3)), NaN, Text}

CalcParamSets ==
    {CalcBase}
        \cup UNION { { With(CalcBase, CalcFields[j].name, v) :
                         v \in FieldValues(CalcFields[j]) } : j \in DOMAIN CalcFields }
        \cup { With(CalcBase, "annual_salary_growth", v) : v \in SalaryGrowthValues }
        \cup { With(With(CalcBase, "start_age", Num(I(a[1]))), "end_age", Num(I(a[2]))) :
                  a \in {<<40, 40>>, <<50, 45>>, <<89, 90>>} }
        \cup { With(CalcBase, "start_age", Num(Rat(2159, 24))) }

InitCalc ==
    /\ params \in CalcParamSets
    /\ calc = [CalcIdle EXCEPT !.pc = "validate"]
    /\ WebUnused
    /\ EvalUnused
    /\ MCUnused
    /\ PctUnused

\* Lines 85-88 and 94-119.
CalcValidate ==
    /\ calc.pc = "validate"
    /\ calc' = calc_validate(params, calc)
    /\ UNCHANGED <<params, evalvars, mcvars, pctvars, webvars>>

\* Lines 89-92.
CalcHorizon ==
    /\ calc.pc = "horizon"
    /\ calc' = calc_horizon(calc)
    /\ UNCHANGED <<params, evalvars, mcvars, pctvars, webvars>>

\* Lines 121-140.
CalcSetup ==
    /\ calc.pc = "setup"
    /\ calc' = calc_setup(params, calc)
    /\ UNCHANGED <<params, evalvars, mcvars, pctvars, webvars>>

\* Lines 143-208.
CalcMonth ==
    /\ calc.pc = "loop"
    /\ calc.month < calc.total_months
    /\ calc' = calc_month(calc)
    /\ UNCHANGED <<params, evalvars, mcvars, pctvars, webvars>>

\* Lines 210-226.
CalcReturn ==
    /\ calc.pc = "loop"
    /\ calc.month >= calc.total_months
    /\ calc' = calc_return(calc)
    /\ UNCHANGED <<params, evalvars, mcvars, pctvars, webvars>>

NextCalc ==
    \/ CalcValidate
    \/ CalcHorizon
    \/ CalcSetup
    \/ CalcMonth
    \/ CalcReturn

SpecCalc == InitCalc /\ [][NextCalc]_vars

---------------------------------------------------------------------------
(* SpecWeb: the Flask application of src/app.py serving one browser, one   *)
(* request after the other.  Each action is one request to one route: the  *)
(* view function run to its end, the session cookie and the response it    *)
(* leaves.                                                                 *)

\* The login forms: each of the two fields missing, right, wrong or empty.
Usernames == {"testuser", "admin", ""}

Passwords == {"testpass", "wrong", ""}

LoginForms ==
    {<< >>}
        \cup { [username |-> u] : u \in Usernames }
        \cup { [password |-> w] : w \in Passwords }
        \cup { [username |-> u, password |-> w] : u \in Usernames, w \in Passwords }

\* JSON objects every field of which float() converts: a horizon of 0, 1 or
\* 2 months and a home that is paid in full (the payment of lines 99-103 is
\* then not computed).  In the second month the balance grows at a rate
\* other than 0 only beside a home that costs nothing.
ComputeAges == {I(30), Rat(361, 12), Rat(181, 6)}

ComputeHomes == {<<0, 0>>, <<600, 600>>, <<600, 1200>>}

ComputeInputs ==
    { c \in [a : ComputeAges, h : ComputeHomes, w : {0, 300}, r : {0, 6}] :
          c.a = Rat(181, 6) => (c.r = 0 \/ c.h[1] = 0) }

ComputeObjects ==
    { [current_age |-> Num(I(30)), age_at_death |-> Num(c.a),
       home_cost |-> Num(I(c.h[1])), down_payment |-> Num(I(c.h[2])),
       monthly_salary |-> Num(I(c.w)), monthly_rent |-> Num(I(100)),
       monthly_expenses |-> Num(I(100)), investment_return |-> Num(I(c.r))] :
          c \in ComputeInputs }

\* JSON objects one field of which is a text that is no number, or null.
BadObjects ==
    { With(o, ComputeFields[j].name, v) :
          o \in {<< >>, [current_age |-> Num(I(30)), age_at_death |-> Num(I(30))]},
          j \in {1, 3, 8}, v \in {Text, JNull} }

ComputeBodies ==
    { Body(k, << >>) : k \in {"absent", "malformed", "null", "list"} }
        \cup { Body("object", o) : o \in ComputeObjects \cup BadObjects }

InitWeb ==
    /\ session = << >>
    /\ request = NoRequest
    /\ response = NoResponse
    /\ CalcUnused
    /\ EvalUnused
    /\ MCUnused
    /\ PctUnused

\* Lines 11-24.
Login ==
    \E method \in {"GET", "POST"}, form \in LoginForms :
        LET req == [method |-> method, path |-> "/", form |-> form,
                    body |-> Body("absent", << >>)]
            r == login(req, session)
        IN  /\ method = "GET" => form = << >>
            /\ request' = req
            /\ session' = r.session
            /\ response' = r.response
            /\ UNCHANGED <<evalvars, mcvars, pctvars, calcvars>>

\* Lines 26-29.
Logout ==
    LET req == [method |-> "GET", path |-> "/logout", form |-> << >>,
                body |-> Body("absent", << >>)]
        r == logout(req, session)
    IN  /\ request' = req
        /\ session' = r.session
        /\ response' = r.response
        /\ UNCHANGED <<evalvars, mcvars, pctvars, calcvars>>

\* Lines 31-35.
Calculator ==
    LET req == [method |-> "GET", path |-> "/calculator", form |-> << >>,
                body |-> Body("absent", << >>)]
        r == calculator(req, session)
    IN  /\ request' = req
        /\ session' = r.session
        /\ response' = r.response
        /\ UNCHANGED <<evalvars, mcvars, pctvars, calcvars>>

\* Lines 37-157.
Compute ==
    \E body \in ComputeBodies, json_is_none \in BOOLEAN :
        LET req == [method |-> "POST", path |-> "/compute", form |-> << >>,
                    body |-> body]
            r == compute(req, session, json_is_none)
        IN  /\ request' = req
            /\ session' = r.session
            /\ response' = r.response
            /\ UNCHANGED <<evalvars, mcvars, pctvars, calcvars>>

\* Lines 26, 31 and 37: a route answers a method it does not list with
\* 405 Method Not Allowed, and no view function runs.
MethodNotAllowed ==
    \E route \in {<<"POST", "/logout">>, <<"POST", "/calculator">>, <<"GET", "/compute">>} :
        /\ request' = [method |-> route[1], path |-> route[2], form |-> << >>,
                       body |-> Body("absent", << >>)]
        /\ response' = flask_error(405, "Method Not Allowed")
        /\ UNCHANGED <<session, evalvars, mcvars, pctvars, calcvars>>

NextWeb ==
    \/ Login
    \/ Logout
    \/ Calculator
    \/ Compute
    \/ MethodNotAllowed

SpecWeb == InitWeb /\ [][NextWeb]_vars

---------------------------------------------------------------------------
(* Claims about the evaluators, checked under Spec.                        *)

OwnEntered == own.pc \in {"loop", "done"}

HorizonYears == RSub(vals.end_age, vals.start_age)

\* C1: neither evaluator raises on a well-formed numeric Parameter Set:
\* whatever the Parameter Set, a call ends with a numeric result, never with
\* an exception.
C1_NeverRaises == own.pc # "error" /\ rent.pc # "error"

\* C2: for principal > 0, monthly rate >= 0 and a term of at least one
\* payment, once the loop has passed the final scheduled payment (month index
\* number_of_payments - 1) of a horizon that covers the term, mortgage_balance
\* is exactly 0.
C2_PaidOffByFinalPayment ==
    ( /\ OwnEntered
      /\ RGt(own.mortgage_principal, Zero)
      /\ RGe(own.monthly_interest_rate, Zero)
      /\ own.mortgage_term_months >= 1
      /\ own.months >= own.mortgage_term_months
      /\ own.m >= own.mortgage_term_months )
    => own.mortgage_balance = Zero

\* C3: after every month of the own loop mortgage_balance is >= 0 and is not
\* above its value after the previous month, for every principal >= 0 and
\* every mortgage rate (positive, zero or negative).
C3_BalanceNeverRises ==
    [][ /\ RGe(own'.mortgage_balance, Zero)
        /\ (own.pc = "loop" => RLe(own'.mortgage_balance, own.mortgage_balance)) ]_vars

\* C3 witness: under a negative rate the balance has gone down two months
\* running and is still positive.
C3_Witness ==
    /\ own.pc = "loop"
    /\ own.m >= 2
    /\ RLt(own.monthly_interest_rate, Zero)
    /\ RGt(own.mortgage_balance, Zero)
    /\ RLt(own.mortgage_balance, own.mortgage_principal)

\* C4: with a monthly rate of 0 and principal > 0 the level payment is
\* principal / number_of_payments, and that is what an active month pays;
\* with principal 0 the payment is 0.
C4_ZeroRatePayment ==
    OwnEntered =>
      /\ ( /\ RGt(own.mortgage_principal, Zero)
           /\ own.monthly_interest_rate = Zero
           /\ own.mortgage_term_months >= 1 )
         => LET level == RDiv(own.mortgage_principal, I(own.mortgage_term_months))
            IN  /\ own.mortgage_payment = level
                /\ (own.m >= 1 /\ own.m <= own.mortgage_term_months
                      => own.actual_mortgage_payment = level)
      /\ (own.mortgage_principal = Zero => own.mortgage_payment = Zero)

\* C6: whenever floor((end_age - start_age) * 12) < 1, each evaluator
\* returns 0.0 and runs no month of its loop, whatever the other parameters.
C6_DegenerateHorizonIsZero ==
    Floor(RMul(HorizonYears, I(12))) < 1 =>
      /\ own.pc \in {"idle", "done"} /\ own.m = 0 /\ own.result = Zero
      /\ rent.pc \in {"idle", "done"} /\ rent.m = 0 /\ rent.result = Zero

\* C6 witness: both evaluators have returned for a horizon of half a month
\* on a Parameter Set whose house and income are not 0.
C6_Witness ==
    /\ HorizonYears = Rat(1, 24)
    /\ own.pc = "done" /\ rent.pc = "done"
    /\ vals.home_price # Zero /\ vals.annual_income # Zero

\* C13: for down_payment = home_price, calculate_own_scenario pays 0 on the
\* mortgage in every month of the horizon and mortgage_balance is 0 after
\* every month, for every mortgage rate and mortgage term (and the call
\* does not raise).
C13_FullDownPaymentNoMortgage ==
    vals.down_payment = vals.home_price =>
      /\ own.pc # "error"
      /\ own.mortgage_payment = Zero
      /\ own.actual_mortgage_payment = Zero
      /\ own.mortgage_balance = Zero

\* C13 witness: two months into the term of a mortgage at a positive rate on
\* a house of 4095 that was paid for in full.
C13_Witness ==
    /\ vals.down_payment = vals.home_price
    /\ RGt(vals.home_price, Zero)
    /\ RGt(vals.mortgage_rate, Zero)
    /\ own.pc = "loop"
    /\ own.m >= 2
    /\ own.m < own.mortgage_term_months

\* No month of the own loop from state s up to month index upto (excluded)
\* leaves a positive leftover.
RECURSIVE OwnNeverPositive(_, _, _)
OwnNeverPositive(v, s, upto) ==
    IF s.pc # "loop" \/ s.m >= upto THEN TRUE
    ELSE LET t == own_month(v, s)
         IN  ~RGt(t.leftover, Zero) /\ OwnNeverPositive(v, t, upto)

RECURSIVE RentNeverPositive(_, _, _)
RentNeverPositive(v, s, upto) ==
    IF s.pc # "loop" \/ s.m >= upto THEN TRUE
    ELSE LET t == rent_month(v, s)
         IN  ~RGt(t.leftover, Zero) /\ RentNeverPositive(v, t, upto)

\* C16: in both evaluators, if no month so far has left a positive leftover
\* and investment_return is 0, liquid_investments is 0 after every month;
\* when that holds of the whole horizon the rent path returns 0.0.
C16_NoLeftoverNoInvestments ==
    vals.investment_return = Zero =>
      /\ (own.pc \in {"loop", "done"} /\ OwnNeverPositive(vals, own_start(vals), own.m))
            => own.liquid_investments = Zero
      /\ (rent.pc \in {"loop", "done"} /\ RentNeverPositive(vals, rent_start(vals), rent.m))
            => /\ rent.liquid_investments = Zero
               /\ rent.pc = "done" => rent.result = Zero

\* C16 witness: both evaluators have returned after a horizon of more than a
\* year in which the leftover was negative in the last month and never
\* positive, and nothing was invested.
C16_Witness ==
    /\ vals.investment_return = Zero
    /\ own.pc = "done" /\ rent.pc = "done"
    /\ own.months > 12
    /\ RLt(own.leftover, Zero) /\ RLt(rent.leftover, Zero)
    /\ OwnNeverPositive(vals, own_start(vals), own.m)
    /\ RentNeverPositive(vals, rent_start(vals), rent.m)
    /\ own.liquid_investments = Zero /\ rent.result = Zero

\* The number of positive multiples of 12 among the month indices 0..j-1:
\* floor((j - 1) / 12) for j >= 1.
StepsIn(j) == IF j >= 1 THEN (j - 1) \div 12 ELSE 0

\* x after e annual steps at the percentage rate
Grown(x, rate, e) == RMul(x, RPow(RAdd(One, Pct(rate)), e))

\* C19: in both loops the annual step fires exactly at the month indices
\* that are positive multiples of 12, never at month 0, and before that
\* month's costs and leftover: after j months it has fired floor((j-1)/12)
\* times, so house_value is home_price * (1 + home_appreciation)^floor((j-1)/12)
\* (with j = months at the return), the rent and the leftover of month m are
\* those of rent * (1 + rent_escalation_rate)^floor(m/12) and of the income
\* and expenses grown floor(m/12) times.
C19_AnnualStepAtMultiplesOf12 ==
    /\ (own.pc \in {"loop", "done"} /\ own.months >= 1) =>
          LET e == StepsIn(own.m)
              income == Grown(vals.annual_income, vals.inflation_rate, e)
              living == Grown(RAdd(RAdd(RAdd(vals.monthly_travel, vals.monthly_groceries),
                                        vals.monthly_bills), vals.monthly_healthcare),
                              vals.inflation_rate, e)
              house == Grown(vals.home_price, vals.home_appreciation, e)
              costs == RAdd(RAdd(RAdd(own.actual_mortgage_payment,
                                      PerMonth(RMul(house, Pct(vals.property_tax_rate)))),
                                 Grown(PerMonth(vals.homeowner_insurance),
                                       vals.inflation_rate, e)),
                            PerMonth(RMul(house, Pct(vals.maintenance_rate))))
          IN  /\ own.pc = "done" => own.m = own.months
              /\ own.house_value = house
              /\ own.annual_income = income
              /\ own.m >= 1 =>
                    own.leftover = RSub(MonthlyIncome(income, vals), RAdd(costs, living))
    /\ (rent.pc \in {"loop", "done"} /\ rent.months >= 1) =>
          LET e == StepsIn(rent.m)
              income == Grown(vals.annual_income, vals.inflation_rate, e)
              living == Grown(RAdd(RAdd(RAdd(vals.monthly_travel, vals.monthly_groceries),
                                        vals.monthly_bills), vals.monthly_healthcare),
                              vals.inflation_rate, e)
              rent_m == Grown(vals.rent, vals.rent_escalation_rate, e)
          IN  /\ rent.pc = "done" => rent.m = rent.months
              /\ rent.current_rent = rent_m
              /\ rent.m >= 1 =>
                    rent.leftover = RSub(MonthlyIncome(income, vals), RAdd(rent_m, living))

\* C19 witness: both evaluators have returned after 25 months, the house
\* worth four times its price and the rent at four times where it began.
C19_Witness ==
    /\ own.pc = "done" /\ rent.pc = "done"
    /\ own.months = 25 /\ rent.months = 25
    /\ vals.home_price # Zero /\ vals.rent # Zero /\ vals.annual_income # Zero
    /\ own.house_value = RMul(I(4), vals.home_price)
    /\ rent.current_rent = RMul(I(4), vals.rent)

\* The monthly growth factor 1 + investment_return/1200 of lines 204-206 and
\* 284-286.
GrowthFactor == RAdd(One, PerMonth(Pct(vals.investment_return)))

\* The step is one iteration of the monthly loop of the own path, of the
\* rent path.
OwnMonthStep == own.pc = "loop" /\ own'.pc = "loop" /\ own'.m = own.m + 1

RentMonthStep == rent.pc = "loop" /\ rent'.pc = "loop" /\ rent'.m = rent.m + 1

\* C23: in both evaluators, when the monthly growth factor
\* 1 + investment_return/1200 is not negative, liquid_investments is never
\* negative; a month whose leftover is not positive leaves exactly the
\* balance that compounding alone gives (the shortfall is not carried as
\* debt), a month whose leftover is positive leaves more or as much; and
\* the net worth the rent path returns is not negative.
C23_ShortfallNotCarried ==
    [][ RGe(GrowthFactor, Zero) =>
          /\ RGe(own'.liquid_investments, Zero)
          /\ RGe(rent'.liquid_investments, Zero)
          /\ OwnMonthStep =>
                IF RGt(own'.leftover, Zero)
                THEN own'.liquid_investments =
                         RMul(RAdd(own.liquid_investments, own'.leftover), GrowthFactor)
                ELSE own'.liquid_investments =
                         RMul(own.liquid_investments, GrowthFactor)
          /\ RentMonthStep =>
                IF RGt(rent'.leftover, Zero)
                THEN rent'.liquid_investments =
                         RMul(RAdd(rent.liquid_investments, rent'.leftover), GrowthFactor)
                ELSE rent'.liquid_investments =
                         RMul(rent.liquid_investments, GrowthFactor)
          /\ rent'.pc = "done" => RGe(rent'.result, Zero) ]_vars

\* C23 witness: both paths have returned after a month with a negative
\* leftover that followed months with a positive one; the balances they end
\* with are positive, and so is the net worth of the rent path.
C23_Witness ==
    /\ RGt(GrowthFactor, Zero)
    /\ own.pc = "done" /\ rent.pc = "done"
    /\ own.m > 12 /\ rent.m > 12
    /\ RLt(own.leftover, Zero) /\ RGt(own.liquid_investments, Zero)
    /\ RLt(rent.leftover, Zero) /\ RGt(rent.liquid_investments, Zero)
    /\ RGt(rent.result, Zero)

\* The parameters only the own path reads, and only the rent path.
OwnOnlyKeys ==
    {"home_price", "down_payment", "mortgage_rate", "mortgage_term",
     "property_tax_rate", "homeowner_insurance", "maintenance_rate",
     "home_appreciation"}

RentOnlyKeys == {"rent", "rent_escalation_rate"}

\* Another value for the parameter key than x.
Other(key, x) ==
    IF key = "mortgage_term" THEN (IF x = One THEN Rat(7, 24) ELSE One)
    ELSE IF x = I(1200) THEN I(2400) ELSE I(1200)

\* The Parameter Sets that differ from v in one of the parameters keys, or
\* in all of them, and in nothing else.
Variants(v, keys) ==
    { [name \in DOMAIN v |-> IF name = key THEN Other(name, v[name]) ELSE v[name]] :
          key \in keys }
        \cup { [name \in DOMAIN v |->
                  IF name \in keys THEN Other(name, v[name]) ELSE v[name]] }

\* C24: when calculate_rent_scenario returns, it returns the same on every
\* Parameter Set that differs from this one only in parameters of the own
\* path (home_price, down_payment, mortgage_rate, mortgage_term,
\* property_tax_rate, homeowner_insurance, maintenance_rate,
\* home_appreciation); when calculate_own_scenario returns or raises, it
\* does the same on every Parameter Set that differs only in rent and
\* rent_escalation_rate.
C24_PathsDoNotInterfere ==
    [][ /\ (rent.pc # "done" /\ rent'.pc = "done") =>
              \A w \in Variants(vals, OwnOnlyKeys) :
                  LET r == calculate_rent_scenario(w)
                  IN  r.pc = "done" /\ r.result = rent'.result
        /\ (own.pc \notin {"done", "error"} /\ own'.pc \in {"done", "error"}) =>
              \A w \in Variants(vals, RentOnlyKeys) :
                  LET o == calculate_own_scenario(w)
                  IN  o.pc = own'.pc /\ o.exc = own'.exc /\ o.result = own'.result ]_vars

\* C24 witness: both paths have returned amounts other than 0 after a run
\* of more than a year on a Parameter Set with a house, a mortgage and a
\* rent, and on a variant of it the other path returns another amount.
C24_Witness ==
    /\ own.pc = "done" /\ rent.pc = "done"
    /\ own.m > 12 /\ rent.m > 12
    /\ own.result # Zero /\ rent.result # Zero
    /\ vals.rent # Zero /\ vals.home_price # Zero
    /\ \E w \in Variants(vals, OwnOnlyKeys) : calculate_own_scenario(w).result # own.result
    /\ \E w \in Variants(vals, RentOnlyKeys) : calculate_rent_scenario(w).result # rent.result

---------------------------------------------------------------------------
(* Claims about the aggregator, checked under SpecMC.                      *)

MCDone == mc.pc = "done"

\* The outcomes of the trials in the order the trials ran.
TrialOwn == [i \in 1..Len(trials) |-> trials[i][1]]

TrialRent == [i \in 1..Len(trials) |-> trials[i][2]]

\* Every parameter has a spec, and each is a normal with stdev 0.
AllPoint ==
    /\ DOMAIN dist_params = DistKeys
    /\ \A dk \in DistKeys :
          /\ Get(dist_params[dk], "dist_type", "normal") = "normal"
          /\ Get(dist_params[dk], "stdev", Zero) = Zero

\* The Parameter Set made of the means of the specs.
MeansOf(dp) ==
    [key \in {variable_keys[i][1] : i \in DOMAIN variable_keys} |->
        Get(dp[variable_keys[CHOOSE i \in DOMAIN variable_keys :
                                 variable_keys[i][1] = key][2]], "mean", Zero)]

\* C5: the own_results and rent_results that run_monte_carlo returns are in
\* trial-generation order: element i of each is the outcome of the i-th
\* trial, so the two stay paired by trial.
C5_ReturnedInTrialOrder ==
    MCDone => result.own_results = TrialOwn /\ result.rent_results = TrialRent

\* C7: when every spec is a point distribution, a run returns num_trials own
\* values and num_trials rent values, each equal to one direct call of the
\* evaluator on the Parameter Set of the means (and the run raises only if
\* that direct call raises).
C7_PointRunEqualsDirectCall ==
    AllPoint =>
      LET direct_own == calculate_own_scenario(MeansOf(dist_params))
          direct_rent == calculate_rent_scenario(MeansOf(dist_params))
      IN  /\ MCDone =>
               /\ Len(result.own_results) = (IF num_sims > 0 THEN num_sims ELSE 0)
               /\ Len(result.rent_results) = Len(result.own_results)
               /\ \A i \in DOMAIN result.own_results :
                     /\ direct_own.pc = "done"
                     /\ result.own_results[i] = direct_own.result
                     /\ result.rent_results[i] = direct_rent.result
          /\ mc.pc = "error" => direct_own.pc = "error" /\ result.exc = direct_own.exc

\* C7 witness: a point run of at least two trials has returned values that
\* are not 0.
C7_Witness ==
    /\ AllPoint /\ MCDone /\ num_sims >= 2
    /\ result.own_results[1] # Zero /\ result.rent_results[2] # Zero

\* C8: a second run from the same seed, with the same specs and trial count,
\* returns exactly what the first returned (or raises what it raised).
C8_SameSeedSameResults == (run = 2 /\ mc.pc \in {"done", "error"}) => result = first

\* C8 witness: the second run has returned, and its trials did not all come
\* out alike.
C8_Witness ==
    /\ run = 2 /\ MCDone /\ num_sims >= 2
    /\ trials[1] # trials[2]
    /\ first.own_results # << >>

\* C10: for num_trials >= 0 the returned own_results and rent_results each
\* have exactly num_trials elements, one per trial run.
C10_LengthIsNumTrials ==
    (MCDone /\ num_sims >= 0) =>
      /\ Len(result.own_results) = num_sims
      /\ Len(result.rent_results) = num_sims
      /\ Len(trials) = num_sims

\* C10 witness: a run of at least two trials has returned, two of its
\* trials with the same own outcome.
C10_Witness ==
    /\ MCDone /\ num_sims >= 2
    /\ trials[1][1] = trials[2][1]

---------------------------------------------------------------------------
(* Claims about the sampler and the trial runner, checked under SpecMC.    *)

\* The sampling loop is about to resolve variable_keys[mc.k].
Sampling == mc.pc = "sample" /\ mc.k <= Len(variable_keys)

\* The kinds sample_distribution draws for.
Recognized == {"normal", "lognormal", "triangular"}

\* The state of the random source n draws after state rs.
RECURSIVE Advance(_, _)
Advance(rs, n) == IF n = 0 THEN rs ELSE Advance(random_advance(rs), n - 1)

\* Whether resolving variable_keys[j] draws from the random source: its key
\* is present and its kind is one sample_distribution draws for.
Draws(dp, j) ==
    /\ variable_keys[j][2] \in DOMAIN dp
    /\ Get(dp[variable_keys[j][2]], "dist_type", "normal") \in Recognized

\* The number of draws a trial makes before it resolves variable_keys[k].
DrawsBefore(dp, k) == Cardinality({j \in 1..(k - 1) : Draws(dp, j)})

\* The Parameter Set a trial resolves from the specs dp when it begins with
\* the random source in state rs: each parameter from its own spec and from
\* the draw that is its turn.
TrialVals(rs, dp) ==
    [base_key \in {variable_keys[j][1] : j \in DOMAIN variable_keys} |->
        LET k == CHOOSE j \in DOMAIN variable_keys : variable_keys[j][1] = base_key
        IN  sample_key(Advance(rs, DrawsBefore(dp, k)), dp, variable_keys[k][2]).val]

\* C14: no state carries across trials.  run_single_simulation starts every
\* trial from an empty Parameter Set and never changes the caller's specs;
\* neither evaluator changes the Parameter Set it is given; and the pair a
\* trial produces (or the exception it raises) is the pair the evaluators
\* give on the Parameter Set resolved from the specs and from the draws made
\* during that trial, whatever the earlier trials drew or produced.
C14_NoStateAcrossTrials ==
    [][ /\ dist_params' = dist_params
        /\ (mc.pc = "loop" /\ mc'.pc = "sample") => vals' = << >>
        /\ ((mc.pc = "sample" /\ mc.k > Len(variable_keys)) \/ mc.pc = "rent")
              => vals' = vals
        /\ (mc.pc = "rent" /\ mc'.pc = "loop") =>
              LET v == TrialVals(mc.rng0, dist_params)
              IN  /\ Len(trials') = Len(trials) + 1
                  /\ trials'[Len(trials')] =
                        <<calculate_own_scenario(v).result,
                          calculate_rent_scenario(v).result>>
                  /\ mc'.own_values = Append(mc.own_values, trials'[Len(trials')][1])
                  /\ mc'.rent_values = Append(mc.rent_values, trials'[Len(trials')][2])
        /\ (mc.pc = "sample" /\ mc'.pc = "error") =>
              calculate_own_scenario(TrialVals(mc.rng0, dist_params)).pc = "error" ]_vars

\* C14 witness: the third trial of a run has ended with another pair than
\* the first and the second, which differ too.
C14_Witness ==
    /\ mc.pc = "loop" /\ Len(trials) = 3
    /\ trials[1] # trials[2] /\ trials[2] # trials[3] /\ trials[1] # trials[3]
    /\ mc.rng0 # random_seed(seed)

\* C11: in run_single_simulation a parameter whose "<name>_dist" key is
\* absent from the specs gets the value 0.0, with no error and no draw from
\* the random source; a parameter whose key is present gets what one call of
\* sample_distribution on its spec returns, and the random source is left
\* where that call left it.
C11_AbsentKeyIsZero ==
    [][ Sampling =>
          LET base_key == variable_keys[mc.k][1]
              dist_key == variable_keys[mc.k][2]
          IN  /\ mc'.pc = "sample"
              /\ mc'.k = mc.k + 1
              /\ base_key \in DOMAIN vals'
              /\ IF dist_key \notin DOMAIN dist_params
                 THEN vals'[base_key] = Zero /\ rng' = rng
                 ELSE LET d == dist_params[dist_key]
                          drawn == sample_distribution(rng, Get(d, "dist_type", "normal"),
                                       Get(d, "mean", Zero), Get(d, "stdev", Zero),
                                       Get(d, "min", Zero), Get(d, "max", Zero),
                                       Get(d, "mode", Zero))
                      IN  vals'[base_key] = drawn.val /\ rng' = drawn.rng ]_vars

\* C11 witness: in the first trial, annual_income has been drawn from a
\* normal with stdev > 0 and maintenance_rate, which has no spec, has just
\* been resolved to 0 with the random source still six draws on from the seed
\* (the six parameters before it that have a spec).
C11_Witness ==
    /\ run = 1 /\ mc.pc = "sample" /\ mc.i = 0 /\ mc.k = 9
    /\ "maintenance_rate_dist" \notin DOMAIN dist_params
    /\ Get(dist_params["annual_income_dist"], "dist_type", "normal") = "normal"
    /\ Get(dist_params["annual_income_dist"], "stdev", Zero) # Zero
    /\ vals.maintenance_rate = Zero
    /\ vals.annual_income # Zero
    /\ DrawsBefore(dist_params, 8) = 6
    /\ rng = Advance(random_seed(seed), 6)

\* C12: sample_distribution called with a kind other than 'normal',
\* 'lognormal' or 'triangular' returns the mean it was given, raises nothing
\* and leaves the random source as it found it.
C12_UnknownKindReturnsMean ==
    [][ ( /\ Sampling
          /\ variable_keys[mc.k][2] \in DOMAIN dist_params
          /\ Get(dist_params[variable_keys[mc.k][2]], "dist_type", "normal")
                \notin Recognized )
        => /\ mc'.pc = "sample"
           /\ vals'[variable_keys[mc.k][1]] =
                 Get(dist_params[variable_keys[mc.k][2]], "mean", Zero)
           /\ rng' = rng ]_vars

\* C12 witness: in the first trial, annual_income ('Normal', stdev 12000),
\* rent ('uniform') and marginal_tax_rate ('') came out as their means, and
\* end_age, drawn after them, got the twelfth draw of the seeded stream (the
\* eleven before it went to the parameters of a recognized kind).
C12_Witness ==
    /\ run = 1 /\ mc.pc = "sample" /\ mc.i = 0 /\ mc.k = 17
    /\ Get(dist_params["annual_income_dist"], "dist_type", "normal") = "Normal"
    /\ Get(dist_params["annual_income_dist"], "stdev", Zero) # Zero
    /\ vals.annual_income = dist_params["annual_income_dist"].mean
    /\ vals.rent = I(1200)
    /\ vals.marginal_tax_rate = I(50)
    /\ DrawsBefore(dist_params, 16) = 11
    /\ vals.end_age =
          random_gauss(Advance(random_seed(seed), 11), dist_params["end_age_dist"].mean,
                       dist_params["end_age_dist"].stdev)
    /\ rng = Advance(random_seed(seed), 12)

\* The names the trial runner resolves.
ParameterNames == {variable_keys[j][1] : j \in DOMAIN variable_keys}

\* The sampling loop of the current trial has resolved every parameter.
Resolved == (mc.pc = "sample" /\ mc.k > Len(variable_keys)) \/ own.pc # "idle"

\* The trial runner resolves a fixed list of exactly n distinct names, each
\* looked up under its "<name>_dist" key, and the Parameter Set it hands to
\* the evaluators has exactly those n entries whichever keys the specs hold.
ResolvesExactly(n) ==
    /\ Len(variable_keys) = n
    /\ Cardinality(ParameterNames) = n
    /\ \A j \in DOMAIN variable_keys :
          variable_keys[j][2] = variable_keys[j][1] \o "_dist"
    /\ Resolved => DOMAIN vals = ParameterNames /\ Cardinality(DOMAIN vals) = n

\* C15 as stated: the trial runner resolves exactly 18 parameter names, each
\* under its "<name>_dist" key, and the Parameter Set given to the evaluators
\* has exactly those 18 entries whichever "_dist" keys are supplied.
C15_EighteenNames == ResolvesExactly(18)

\* C15 as amended: the trial runner resolves exactly 20 parameter names (the
\* 18 that the own path reads, and rent and rent_escalation_rate), each under
\* its "<name>_dist" key, and the Parameter Set given to the evaluators has
\* exactly those 20 entries, the ones the evaluators document, whichever
\* "_dist" keys are supplied.
C15_TwentyNames ==
    /\ ResolvesExactly(20)
    /\ ParameterNames = DOMAIN ZeroVals
    /\ {"rent", "rent_escalation_rate"} \subseteq ParameterNames

\* C15 witness: a trial has resolved its Parameter Set from specs that lack
\* two of the keys, and the rent path has run on it.
C15_Witness ==
    /\ Cardinality(DistKeys \ DOMAIN dist_params) = 2
    /\ Resolved
    /\ rent.pc = "done"
    /\ Cardinality(DOMAIN vals) = 20

\* The parameters both evaluators read.
SharedKeys ==
    {"annual_income", "investment_return", "marginal_tax_rate", "inflation_rate",
     "start_age", "end_age", "monthly_travel", "monthly_groceries", "monthly_bills",
     "monthly_healthcare"}

\* The names resolved before variable_keys[k], in the order of the list.
ResolvedBefore(k) == {variable_keys[j][1] : j \in 1..(k - 1)}

\* C22: within one trial the sampling loop resolves the parameters in the
\* order of variable_keys, each one once (a step resolves the next name of
\* the list, which has no value yet, and leaves the values resolved before
\* as they are); the own path and then the rent path are called on that
\* same Parameter Set, which neither changes, so that the horizon, the
\* income and the living expenses the two paths end with are the same.
C22_SampledOnceSameSetForBoth ==
    [][ /\ Sampling =>
              /\ DOMAIN vals = ResolvedBefore(mc.k)
              /\ variable_keys[mc.k][1] \notin DOMAIN vals
              /\ DOMAIN vals' = ResolvedBefore(mc.k + 1)
              /\ \A key \in DOMAIN vals : vals'[key] = vals[key]
              /\ mc'.k = mc.k + 1
        /\ (mc.pc = "sample" /\ mc.k > Len(variable_keys)) =>
              /\ DOMAIN vals = ResolvedBefore(Len(variable_keys) + 1)
              /\ vals' = vals
              /\ own' = calculate_own_scenario(vals)
        /\ mc.pc = "rent" =>
              /\ vals' = vals
              /\ own = calculate_own_scenario(vals)
              /\ rent' = calculate_rent_scenario(vals)
              /\ rent'.months = own.months
              /\ rent'.m = own.m
              /\ rent'.annual_income = own.annual_income
              /\ rent'.monthly_travel = own.monthly_travel
              /\ rent'.monthly_groceries = own.monthly_groceries
              /\ rent'.monthly_bills = own.monthly_bills
              /\ rent'.monthly_healthcare = own.monthly_healthcare ]_vars

\* C22 witness: a trial has called both paths on a Parameter Set of all 20
\* names whose income and rent were drawn from distributions that spread,
\* over a horizon of at least a year.
C22_Witness ==
    /\ mc.pc = "loop" /\ mc.i >= 1
    /\ DOMAIN vals = ResolvedBefore(Len(variable_keys) + 1)
    /\ SharedKeys \subseteq DOMAIN vals
    /\ vals.annual_income # dist_params["annual_income_dist"].mean
    /\ own.pc = "done" /\ rent.pc = "done"
    /\ own.months >= 12 /\ rent.months = own.months
    /\ rent.annual_income = own.annual_income

\* The ranks percentile is compared at.
Ranks == {0, 10, 25, 50, 75, 90, 100}

\* For all ranks a <= b: min(list) <= percentile(list, a) <=
\* percentile(list, b) <= max(list), on a non-empty ascending list.
PercentileOrdered(list) ==
    \A a, b \in Ranks :
        a <= b =>
            /\ RLe(list[1], percentile(list, a))
            /\ RLe(percentile(list, a), percentile(list, b))
            /\ RLe(percentile(list, b), list[Len(list)])

\* C25: when run_monte_carlo has returned from a run of at least one trial,
\* on each of the two sorted lists it returns percentile is monotonic in the
\* rank and stays between the least and the greatest value, and the
\* returned 10th percentile, median and 90th percentile are in this order,
\* for the own path and for the rent path.
C25_PercentilesInOrder ==
    (mc.pc = "done" /\ num_sims >= 1) =>
        /\ PercentileOrdered(result.own_results)
        /\ PercentileOrdered(result.rent_results)
        /\ RLe(result.pct_10_own, result.median_own)
        /\ RLe(result.median_own, result.pct_90_own)
        /\ RLe(result.pct_10_rent, result.median_rent)
        /\ RLe(result.median_rent, result.pct_90_rent)

\* C25 witness: run_monte_carlo has returned from three trials whose own
\* and rent values are not all equal, with the 10th percentile below the
\* median and the median below the 90th percentile on both paths.
C25_Witness ==
    /\ mc.pc = "done" /\ num_sims = 3
    /\ Len(result.own_results) = 3 /\ Len(result.rent_results) = 3
    /\ RLt(result.pct_10_own, result.median_own)
    /\ RLt(result.median_own, result.pct_90_own)
    /\ RLt(result.pct_10_rent, result.median_rent)
    /\ RLt(result.median_rent, result.pct_90_rent)

---------------------------------------------------------------------------
(* Claims about percentile, checked under SpecPct.                         *)

---------------------------------------------------------------------------
(* Claims about simulate_own_vs_rent, checked under SpecCalc.              *)

\* The value simulate_own_vs_rent reads for the validated field F.
Supplied(F) == Get(params, F.name, Num(F.default))

\* The field F is numeric and within its range.
FieldValid(F) ==
    /\ Supplied(F).k = "num"
    /\ RGe(Supplied(F).x, F.min)
    /\ RLe(Supplied(F).x, F.max)

AllFieldsValid ==
    /\ \A j \in DOMAIN CalcFields : FieldValid(CalcFields[j])
    /\ Get(params, "annual_salary_growth", Num(annual_salary_growth_default)).k = "num"
    /\ RGt(Supplied(CalcFields[2]).x, Supplied(CalcFields[1]).x)

\* C17: simulate_own_vs_rent ends in an exception only with a ValueError
\* raised before the first month of the loop, and it is in the loop or has
\* returned only if every field it uses, annual_salary_growth included, is
\* numeric and within its range and end_age is greater than start_age.
C17_RejectsBadFields ==
    /\ calc.pc = "error" => calc.exc = "ValueError" /\ calc.month = 0
    /\ calc.pc \in {"loop", "done"} => AllFieldsValid

---------------------------------------------------------------------------
(* Claims about the web application, checked under SpecWeb.                *)

\* The last request was a POST to /compute.
ComputeServed == request.method = "POST" /\ request.path = "/compute"

\* The body of the request is malformed: no JSON body, a body that is not
\* a JSON object, or an object with a field that is no number.
Malformed(req) ==
    \/ req.body.k # "object"
    \/ \E key \in DOMAIN req.body.data : req.body.data[key].k # "num"

\* C18: /compute answers a malformed request (a missing JSON body or a
\* non-numeric field) with a 4xx status, and answers with a 5xx status only
\* a request that is not malformed.
C18_MalformedInputIs4xx ==
    ComputeServed =>
        /\ Malformed(request) => response.status \in 400..499
        /\ response.status >= 500 => ~Malformed(request)

\* The request is a POST to the login route that submits a username that is
\* a key of USERS and the password stored for it.
ValidLoginPost(req) ==
    /\ req.method = "POST"
    /\ req.path = "/"
    /\ "username" \in DOMAIN req.form
    /\ "password" \in DOMAIN req.form
    /\ req.form["username"] \in DOMAIN USERS
    /\ req.form["password"] = USERS[req.form["username"]]

\* C20: a request leaves the session logged in, when it was not before,
\* only if it is a POST to the login route whose username is a key of USERS
\* and whose password is the one stored for that user.
C20_LoginOnlyWithValidCredentials ==
    [][(logged_in(session') /\ ~logged_in(session)) => ValidLoginPost(request')]_vars

\* The last request was to /calculator or to /compute, by a method the route
\* lists.
CalculatorRequested ==
    \/ request.method = "GET" /\ request.path = "/calculator"
    \/ request.method = "POST" /\ request.path = "/compute"

\* The response carries the calculator page or a computed result.
CalculatorContent ==
    \/ response.kind = "page" /\ response.target = "calculator.html"
    \/ response.kind = "json"

\* C21: a request to /calculator or to /compute is answered with the
\* calculator page or a computed result only if the session is logged in,
\* and with the redirect to the login page if it is not (neither route
\* changes the session, so the session after the request is the one it was
\* served in).
C21_CalculatorOnlyWhenLoggedIn ==
    CalculatorRequested =>
        /\ CalculatorContent => logged_in(session)
        /\ ~logged_in(session) => response = redirect("/")

=============================================================================
